---- MODULE Spec2Model ----
(***************************************************************************)
(* KokoMemo: a client-only place-bookmarking app.  The model covers the    *)
(* record store (places, tabs, search history), the place form (PlacePage) *)
(* with its voice-input pipeline, and the search page (SearchPage) with    *)
(* its debounced suggestion flow.                                          *)
(*                                                                         *)
(* Strings are sequences of one-character strings, so that trim() and the  *)
(* note concatenation are computed and not assumed.                        *)
(***************************************************************************)
EXTENDS Integers, Sequences, FiniteSets, TLC

VARIABLES
    \* ---- record store (localStorage) ----
    places,             \* kokomemo places collection, in stored order
    tabs,               \* categories, in stored order
    searchHistory,      \* search history, newest first
    now,                \* logical clock behind new Date().toISOString()
    nextId,             \* next fresh uuid
    \* ---- router / toast ----
    route,              \* "home" | "place" | "search" | "tabs"
    toast,              \* last toast shown
    \* ---- PlacePage component state ----
    isNew,              \* id === 'new'
    editId,             \* the :id route parameter of an edit (0: none)
    name, memo, tabId,  \* form fields
    errorsName,         \* errors.name is set
    \* ---- PlacePage voice input ----
    isListening,
    isProcessingVoice,
    sessions,           \* SpeechRecognition objects created by startVoiceInput,
                        \* each with its phase, its results so far, and whether
                        \* the user pressed stop before it produced a result
    cleanings,          \* processWithGemini calls in flight
    hasGeminiKey,       \* GEMINI_API_KEY is configured (build-time)
    \* ---- SearchPage component state ----
    rev,                \* which revision of SearchPage is mounted
    query,
    isSearching,
    suggestions,
    selectedPlace,
    debounce,           \* the pending debounce timer (debounceRef), or NoTimer
    predInFlight,       \* getPlacePredictions calls awaiting their callback
    detailsInFlight,    \* getPlaceDetails calls awaiting their callback
    isReady,            \* usePlacesAutocomplete().isReady
    selectedSinceInput, \* observer: handleSelectSuggestion ran after the latest
                        \* handleInputChange
    \* ---- PlacePage: the current-location flow of loadData ----
    loadStep,           \* where loadData's current-location branch stands
    coords,             \* latitude / longitude form state
    address,            \* address form field
    locResult,          \* how the getCurrentLocation promise settled
    geoResult,          \* how the reverseGeocode promise settled
    hasMapsKey,         \* GOOGLE_MAPS_API_KEY is configured (build-time)
    \* ---- InteractiveMap: the pin ----
    pinMoves,           \* number of pin moves (drag or long press) so far
    pinInFlight,        \* reverseGeocode calls of pin moves awaiting their answer
    pinApplied,         \* observer: the number of the move whose answer was last
                        \* applied to the selected place (0: none)
    \* ---- useGoogleMaps: module state and hook instances ----
    loaderRev,          \* 1: script.onload and [apiKey, libraries]; 2: callback
                        \* parameter, window.google check and [apiKey]
    isScriptLoading,
    isScriptLoaded,
    loadCallbacks,      \* instances whose () => setIsLoaded(true) is queued
    hooks,              \* per instance: phase, isLoaded, loadError
    scripts,            \* owners of the script elements in document.head that
                        \* have neither loaded nor failed yet
    googleMaps,         \* window.google.maps is defined
    \* ---- usePlacesAutocomplete ----
    sessionToken,       \* the autocomplete session token (0: none yet)
    tokenLog,           \* observer: the token of the latest autocomplete request,
                        \* and the tokens successful detail fetches carried, in
                        \* the order the fetches succeeded
    \* ---- adapter and view functions called on their own ----
    adapterCall,        \* the latest call: function, arguments and outcome
    \* ---- HomePage ----
    home,               \* the list view: loaded places, active tab, sort option,
                        \* the list shown, its cards, and observers of the renders
    \* ---- observers (history variables, written but never read by actions) ----
    net,                \* the net effect of the store calls made so far
    lastWrite,          \* the store call made by the last step
    lastAppend          \* the note append made by the last step

storeVars  == <<places, tabs, searchHistory, now, nextId>>
navVars    == <<route, toast>>
formVars   == <<isNew, editId, name, memo, tabId, errorsName>>
voiceVars  == <<isListening, isProcessingVoice, sessions, cleanings, hasGeminiKey>>
searchVars == <<rev, query, isSearching, suggestions, selectedPlace, debounce,
                predInFlight, detailsInFlight, isReady, selectedSinceInput>>
locateVars == <<loadStep, coords, address, locResult, geoResult, hasMapsKey>>
tokenVars  == <<sessionToken, tokenLog>>
callVars   == <<adapterCall, home>>
pinVars    == <<pinMoves, pinInFlight, pinApplied>>
loaderVars == <<loaderRev, isScriptLoading, isScriptLoaded, loadCallbacks, hooks,
                scripts, googleMaps>>
mapVars    == <<pinVars, loaderVars>>
adapterVars == <<locateVars, mapVars, tokenVars, callVars>>
obsVars    == <<net, lastWrite, lastAppend>>
vars == <<storeVars, navVars, formVars, voiceVars, searchVars, adapterVars, obsVars>>

----------------------------------------------------------------------------
(* Bounds of the model *)

MaxClock == 3          \* store writes per run in the place-form specification
MaxSessions == 1       \* SpeechRecognition objects created per form
MaxSegments == 1       \* result segments a recognition session delivers
MaxInFlight == 2       \* prediction requests in flight at once
MaxPrior == 21         \* history insertions persisted before the page mounts
MaxSelections == 2     \* suggestion selections per search-page run
MaxTabIds == 7         \* custom tab creations per run
MaxTokens == 3        \* session tokens created on one visit of the search page
MaxPlaces == 3        \* records in the stored list the home page loads
MaxCategoryIds == 2   \* custom categories created when the form and the list are used too

----------------------------------------------------------------------------
(* Strings *)

RECURSIVE TrimStart(_)
TrimStart(s) ==
    IF s # <<>> /\ Head(s) = " " THEN TrimStart(Tail(s)) ELSE s

RECURSIVE TrimEnd(_)
TrimEnd(s) ==
    IF s # <<>> /\ s[Len(s)] = " " THEN TrimEnd(SubSeq(s, 1, Len(s) - 1)) ELSE s

\* String.prototype.trim
Trim(s) == TrimEnd(TrimStart(s))

\* JavaScript truthiness of a string
Truthy(s) == s # <<>>

----------------------------------------------------------------------------
(* Record store: src/lib/storage.ts is not part of the sources at hand; its  *)
(* operations are modelled from the specification's section 4.1.            *)

NoPlace == [id |-> 0]

\* types/index.ts: the built-in tabs seeded at first run
DEFAULT_TABS ==
    << [id |-> "all",      isCustom |-> FALSE, order |-> 0],
       [id |-> "frequent", isCustom |-> FALSE, order |-> 1],
       [id |-> "planned",  isCustom |-> FALSE, order |-> 2],
       [id |-> "revisit",  isCustom |-> FALSE, order |-> 3],
       [id |-> "rest",     isCustom |-> FALSE, order |-> 4] >>

PlaceIds(ps) == {ps[i].id : i \in 1..Len(ps)}

\* getPlaces(): all records, in stored order
ListPlaces(ps) == ps

\* getPlaceById(id): point lookup by linear scan
GetPlaceById(ps, id) ==
    IF \E i \in 1..Len(ps) : ps[i].id = id
    THEN ps[CHOOSE i \in 1..Len(ps) :
                ps[i].id = id /\ \A j \in 1..(i - 1) : ps[j].id # id]
    ELSE NoPlace

\* savePlace(fields): new id, createdAt = updatedAt = now, appended
SavePlace(ps, fields, id, t) ==
    Append(ps, [id |-> id, createdAt |-> t, updatedAt |-> t] @@ fields)

\* updatePlace(id, fields): merge onto the existing record, updatedAt = now;
\* a no-op when the id is absent
UpdatePlace(ps, id, fields, t) ==
    [i \in 1..Len(ps) |->
        IF ps[i].id = id
        THEN [updatedAt |-> t] @@ fields @@ ps[i]
        ELSE ps[i]]

RECURSIVE DeletePlace(_, _)
\* deletePlace(id): removes the matching record if present
DeletePlace(ps, id) ==
    IF ps = <<>> THEN <<>>
    ELSE IF Head(ps).id = id THEN DeletePlace(Tail(ps), id)
    ELSE <<Head(ps)>> \o DeletePlace(Tail(ps), id)

----------------------------------------------------------------------------
(* Observers: what the store calls made so far amount to *)

Stored(id, fields) ==
    [id |-> id, name |-> fields.name, memo |-> fields.memo, tabId |-> fields.tabId]

NetSave(n, id, fields) == n \cup {Stored(id, fields)}

NetUpdate(n, id, fields) ==
    {IF r.id = id THEN Stored(id, fields) ELSE r : r \in n}

NetDelete(n, id) == {r \in n : r.id # id}

NoWrite == [op |-> "none"]
NoAppend == [done |-> FALSE]
Quiet == lastWrite' = NoWrite /\ lastAppend' = NoAppend

----------------------------------------------------------------------------
(* PlacePage: the place form *)

\* Inputs the user types into the name field
Names == { <<>>, <<" ">>, <<"a">>, <<" ", "b">> }

\* Category ids a click on a category button may carry; a button exists only
\* for an offered category
FormTabChoices == {"frequent", "planned", "all"}

\* setTabs(getTabs()): every category record gets a button
OfferedTabsUnfiltered == {tabs[i].id : i \in 1..Len(tabs)}

\* setTabs(getTabs().filter((t) => t.id !== 'all'))
OfferedTabs == {tabs[i].id : i \in {j \in 1..Len(tabs) : tabs[j].id # "all"}}

\* useState(0) for latitude and longitude
NoCoords == [lat |-> 0, lng |-> 0]
NoResult == [kind |-> "pending"]

\* The component's state when it is not mounted (useState initial values)
FormReset ==
    /\ isNew' = FALSE /\ editId' = 0
    /\ name' = <<>> /\ memo' = <<>> /\ tabId' = "frequent"
    /\ errorsName' = FALSE
    /\ isListening' = FALSE /\ isProcessingVoice' = FALSE
    /\ sessions' = <<>> /\ cleanings' = <<>>
    /\ loadStep' = "idle" /\ coords' = NoCoords /\ address' = <<>>
    /\ locResult' = NoResult /\ geoResult' = NoResult

DigitChars == <<"0", "1", "2", "3", "4", "5", "6", "7", "8", "9">>

\* The index of the first x in s (0: none)
IndexOf(s, x) ==
    IF \E i \in 1..Len(s) : s[i] = x
    THEN CHOOSE i \in 1..Len(s) : s[i] = x /\ \A j \in 1..(i - 1) : s[j] # x
    ELSE 0

RECURSIVE StrToNat(_)
StrToNat(s) ==
    IF s = <<>> THEN 0
    ELSE 10 * StrToNat(SubSeq(s, 1, Len(s) - 1))
            + (CHOOSE d \in 0..9 : DigitChars[d + 1] = s[Len(s)])

RECURSIVE PadRight(_, _)
PadRight(s, w) == IF Len(s) >= w THEN s ELSE PadRight(s \o <<"0">>, w)

\* parseFloat of a decimal or "<digit>e-7" literal, in units of 1e-7
ParseFloat(s) ==
    LET neg  == s # <<>> /\ s[1] = "-"
        body == IF neg THEN Tail(s) ELSE s
        e    == IndexOf(body, "e")
        dot  == IndexOf(body, ".")
        mag  == IF e # 0 THEN StrToNat(SubSeq(body, 1, e - 1))
                ELSE IF dot # 0
                THEN StrToNat(SubSeq(body, 1, dot - 1)) * 10000000
                        + StrToNat(PadRight(SubSeq(body, dot + 1, Len(body)), 7))
                ELSE StrToNat(body) * 10000000
    IN  IF neg THEN 0 - mag ELSE mag

\* Values the lat and lng parameters of a /place/new URL may carry
UrlCoordinates ==
    { [lat |-> <<"3", "5", ".", "6", "8">>, lng |-> <<"1", "3", "9", ".", "7">>],
      [lat |-> <<"9", "9">>, lng |-> <<"1", "3", "9", ".", "7">>],
      [lat |-> <<"3", "5", ".", "6", "8">>, lng |-> <<"-", "1", "8", "1">>],
      [lat |-> <<"3", "5", ".", "6", "8">>, lng |-> <<>>] }

\* navigate('/place/new')
OpenNew ==
    /\ route = "home"
    /\ route' = "place" /\ isNew' = TRUE
    /\ UNCHANGED <<editId, name, memo, tabId, errorsName, toast>>
    /\ UNCHANGED <<storeVars, voiceVars, searchVars, net>>
    /\ Quiet
    /\ UNCHANGED adapterVars

\* navigate('/place/new?name=..&lat=..&lng=..'): loadData's prefill branch
OpenNewPrefill(n, la, lo) ==
    /\ route = "home"
    /\ Truthy(n) /\ Truthy(la) /\ Truthy(lo)
    /\ route' = "place" /\ isNew' = TRUE
    /\ name' = n
    /\ coords' = [lat |-> ParseFloat(la), lng |-> ParseFloat(lo)]
    /\ UNCHANGED <<editId, memo, tabId, errorsName, toast>>
    /\ UNCHANGED <<storeVars, voiceVars, searchVars, net>>
    /\ Quiet
    /\ UNCHANGED <<loadStep, address, locResult, geoResult, hasMapsKey, mapVars>>
    /\ UNCHANGED <<tokenVars, callVars>>

\* navigate('/place/:id'): loadData's edit branch
OpenEdit(id) ==
    /\ route = "home"
    /\ LET place == GetPlaceById(places, id) IN
       IF place # NoPlace
       THEN /\ route' = "place" /\ isNew' = FALSE /\ editId' = id
            /\ name' = place.name /\ memo' = place.memo /\ tabId' = place.tabId
            /\ address' = place.address
            /\ coords' = [lat |-> place.latitude, lng |-> place.longitude]
            /\ UNCHANGED <<errorsName, toast>>
       ELSE /\ toast' = "not_found"
            /\ route' = "home"
            /\ UNCHANGED <<isNew, editId, name, memo, tabId, errorsName>>
            /\ UNCHANGED <<address, coords>>
    /\ UNCHANGED <<storeVars, voiceVars, searchVars, net>>
    /\ Quiet
    /\ UNCHANGED <<loadStep, locResult, geoResult, hasMapsKey, mapVars, tokenVars, callVars>>

\* onChange of the name field
SetName(v) ==
    /\ route = "place"
    /\ name' = v
    /\ UNCHANGED <<isNew, editId, memo, tabId, errorsName>>
    /\ UNCHANGED <<storeVars, navVars, voiceVars, searchVars, net>>
    /\ Quiet
    /\ UNCHANGED adapterVars

\* onClick of a category button
SetTabId(t) ==
    /\ route = "place"
    /\ t \in OfferedTabs
    /\ tabId' = t
    /\ UNCHANGED <<isNew, editId, name, memo, errorsName>>
    /\ UNCHANGED <<storeVars, navVars, voiceVars, searchVars, net>>
    /\ Quiet
    /\ UNCHANGED adapterVars

\* validate(): the name must be non-empty after trimming
ValidateNoTrim == Truthy(name)
Validate == Truthy(Trim(name))

\* The fields handleSave hands to the store
SaveFields ==
    [name |-> Trim(name), memo |-> Trim(memo), address |-> address,
     latitude |-> coords.lat, longitude |-> coords.lng, tabId |-> tabId]

\* handleSave's store call: savePlace for a new place, updatePlace for an edit
SaveCallAlwaysCreates(ps) == SavePlace(ps, SaveFields, nextId, now)
SaveCall(ps) ==
    IF isNew THEN SavePlace(ps, SaveFields, nextId, now)
    ELSE UpdatePlace(ps, editId, SaveFields, now)

\* handleSave
HandleSave ==
    /\ route = "place"
    /\ loadStep \in {"idle", "done"}     \* the form is rendered: isLoading is false
    /\ IF ~Validate
       THEN /\ errorsName' = TRUE
            /\ UNCHANGED <<isNew, editId, name, memo, tabId>>
            /\ UNCHANGED <<loadStep, coords, address, locResult, geoResult>>
            /\ UNCHANGED <<storeVars, navVars, voiceVars, net>>
            /\ Quiet
       ELSE /\ now < MaxClock
            /\ isNew \/ editId # 0
            /\ places' = SaveCall(places)
            /\ now' = now + 1
            /\ nextId' = IF isNew THEN nextId + 1 ELSE nextId
            /\ toast' = IF isNew THEN "saved" ELSE "updated"
            /\ route' = "home"
            /\ net' = IF isNew THEN NetSave(net, nextId, SaveFields)
                      ELSE NetUpdate(net, editId, SaveFields)
            /\ lastWrite' = [op |-> IF isNew THEN "save" ELSE "update",
                             id |-> IF isNew THEN nextId ELSE editId,
                             found |-> isNew \/ editId \in PlaceIds(places)]
            /\ lastAppend' = NoAppend
            /\ FormReset
            /\ UNCHANGED <<tabs, searchHistory, hasGeminiKey>>
    /\ UNCHANGED searchVars
    /\ UNCHANGED <<hasMapsKey, mapVars, tokenVars, callVars>>

\* handleDelete (the confirm dialog's onConfirm)
HandleDelete ==
    /\ route = "place"
    /\ ~isNew /\ editId # 0
    /\ places' = DeletePlace(places, editId)
    /\ toast' = "deleted"
    /\ route' = "home"
    /\ net' = NetDelete(net, editId)
    /\ lastWrite' = [op |-> "delete", id |-> editId,
                     found |-> editId \in PlaceIds(places)]
    /\ lastAppend' = NoAppend
    /\ FormReset
    /\ UNCHANGED <<tabs, searchHistory, now, nextId, hasGeminiKey>>
    /\ UNCHANGED searchVars
    /\ UNCHANGED <<hasMapsKey, mapVars, tokenVars, callVars>>

\* A second open instance of the app deletes a place while this form is open
\* (the store has no cross-instance locking)
OtherInstanceDelete(id) ==
    /\ route = "place" /\ ~isNew
    /\ id \in PlaceIds(places)
    /\ places' = DeletePlace(places, id)
    /\ net' = NetDelete(net, id)
    /\ lastWrite' = [op |-> "delete", id |-> id, found |-> TRUE]
    /\ lastAppend' = NoAppend
    /\ UNCHANGED <<tabs, searchHistory, now, nextId>>
    /\ UNCHANGED <<navVars, formVars, voiceVars, searchVars>>
    /\ UNCHANGED adapterVars

----------------------------------------------------------------------------
(* The place-form specification *)

InitStore ==
    /\ places = <<>> /\ tabs = DEFAULT_TABS /\ searchHistory = <<>>
    /\ now = 0 /\ nextId = 1

InitForm ==
    /\ isNew = FALSE /\ editId = 0
    /\ name = <<>> /\ memo = <<>> /\ tabId = "frequent"
    /\ errorsName = FALSE

InitVoice ==
    /\ isListening = FALSE /\ isProcessingVoice = FALSE
    /\ sessions = <<>> /\ cleanings = <<>>

NoTimer == [armed |-> FALSE]
NoSelection == [placeId |-> "none"]

InitSearchPage ==
    /\ query = <<>> /\ isSearching = FALSE /\ suggestions = <<>>
    /\ selectedPlace = NoSelection /\ debounce = NoTimer
    /\ predInFlight = <<>> /\ detailsInFlight = <<>>
    /\ isReady = FALSE /\ selectedSinceInput = FALSE

InitObs == net = {} /\ lastWrite = NoWrite /\ lastAppend = NoAppend

\* The current-location flow before it is started (useState initial values)
\* Hook instances that can be mounted at the same time
MaxHooks == 2
Hooks == 1..MaxHooks

\* useState(isScriptLoaded), useState(null) of an instance not yet rendered
NoHook == [phase |-> "unmounted", isLoaded |-> FALSE, loadError |-> FALSE,
           via |-> "none"]

InitPin == pinMoves = 0 /\ pinInFlight = <<>> /\ pinApplied = 0

InitLoaderState ==
    /\ isScriptLoading = FALSE /\ isScriptLoaded = FALSE
    /\ loadCallbacks = <<>> /\ hooks = [i \in Hooks |-> NoHook]
    /\ scripts = <<>> /\ googleMaps = FALSE

InitLoader == loaderRev = 2 /\ InitLoaderState

InitLocate ==
    /\ loadStep = "idle" /\ coords = NoCoords /\ address = <<>>
    /\ locResult = NoResult /\ geoResult = NoResult

NoTokenLog == [request |-> 0, spent |-> <<>>]

NoCall == [fn |-> "none"]
NoHome == [isLoading |-> TRUE]

InitAdapters ==
    /\ InitLocate /\ InitPin /\ InitLoader /\ hasMapsKey = TRUE
    /\ sessionToken = 0 /\ tokenLog = NoTokenLog
    /\ adapterCall = NoCall /\ home = NoHome

InitPlace ==
    /\ InitAdapters
    /\ InitStore /\ InitForm /\ InitVoice /\ InitSearchPage /\ InitObs
    /\ hasGeminiKey = FALSE /\ rev = 2
    /\ route = "home" /\ toast = "none"

NextPlace ==
    \/ OpenNew
    \/ \E n \in Names : OpenNewPrefill(n, <<"0">>, <<"0">>)
    \/ \E id \in 1..MaxClock : OpenEdit(id)
    \/ \E v \in Names : SetName(v)
    \/ \E t \in FormTabChoices : SetTabId(t)
    \/ HandleSave
    \/ HandleDelete
    \/ \E id \in 1..MaxClock : OtherInstanceDelete(id)

SpecPlace == InitPlace /\ [][NextPlace]_vars

----------------------------------------------------------------------------
(* Categories (tabs): the tab-management page and the store's tab operations *)
(* are not part of the sources at hand; modelled from the specification.    *)

\* "up to 5 custom tabs"
MAX_CUSTOM_TABS == 5

CustomTabs(ts) == {i \in 1..Len(ts) : ts[i].isCustom}

\* saveTab: a custom tab is appended unless the limit is reached
SaveTabNoLimit(ts, id) ==
    Append(ts, [id |-> id, isCustom |-> TRUE, order |-> Len(ts)])
SaveTab(ts, id) ==
    IF Cardinality(CustomTabs(ts)) >= MAX_CUSTOM_TABS THEN ts
    ELSE Append(ts, [id |-> id, isCustom |-> TRUE, order |-> Len(ts)])

RECURSIVE DeleteTab(_, _)
\* deleteTab: built-in tabs cannot be deleted
DeleteTab(ts, id) ==
    IF ts = <<>> THEN <<>>
    ELSE IF Head(ts).id = id /\ Head(ts).isCustom THEN DeleteTab(Tail(ts), id)
    ELSE <<Head(ts)>> \o DeleteTab(Tail(ts), id)

\* The user asks for a new custom category
CreateTab ==
    /\ route = "tabs"
    /\ nextId <= MaxTabIds
    /\ tabs' = SaveTab(tabs, ToString(nextId))
    /\ nextId' = nextId + 1
    /\ toast' = IF tabs' = tabs THEN "tab_limit" ELSE "tab_created"
    /\ UNCHANGED <<places, searchHistory, now, route>>
    /\ UNCHANGED <<formVars, voiceVars, searchVars, net>>
    /\ Quiet
    /\ UNCHANGED adapterVars

\* The user deletes a category
RemoveTab(id) ==
    /\ route = "tabs"
    /\ \E i \in 1..Len(tabs) : tabs[i].id = id
    /\ tabs' = DeleteTab(tabs, id)
    /\ toast' = IF tabs' = tabs THEN "tab_builtin" ELSE "tab_deleted"
    /\ UNCHANGED <<places, searchHistory, now, nextId, route>>
    /\ UNCHANGED <<formVars, voiceVars, searchVars, net>>
    /\ Quiet
    /\ UNCHANGED adapterVars

InitTabs ==
    /\ InitAdapters
    /\ InitStore /\ InitForm /\ InitVoice /\ InitSearchPage /\ InitObs
    /\ hasGeminiKey = FALSE /\ rev = 2
    /\ route = "tabs" /\ toast = "none"

NextTabs ==
    \/ CreateTab
    \/ \E id \in {ToString(n) : n \in 1..MaxTabIds} \cup {"frequent"} : RemoveTab(id)

SpecTabs == InitTabs /\ [][NextTabs]_vars

----------------------------------------------------------------------------
(* PlacePage: voice input and text cleanup *)

\* Segments the recognizer delivers
Segments == { <<" ">>, <<"x">> }

\* Notes the user types into the memo field
Memos == { <<>>, <<"m">> }

\* What the text-cleanup endpoint can answer
CleanupResponses ==
    { [kind |-> "throw",  text |-> <<>>],       \* fetch rejects
      [kind |-> "not_ok", text |-> <<>>],       \* response.ok is false
      [kind |-> "ok",     text |-> <<>>],       \* no candidate text
      [kind |-> "ok",     text |-> <<" ">>],    \* blank candidate text
      [kind |-> "ok",     text |-> <<"c", " ">>] }

NoKeyResponse == [kind |-> "no_key", text |-> <<>>]

\* The response carries text the pipeline can use
Usable(resp) == resp.kind = "ok" /\ Truthy(Trim(resp.text))

\* processWithGemini(rawText), given the endpoint's answer
ProcessWithGeminiNoFallback(rawText, resp) ==
    IF ~hasGeminiKey THEN rawText ELSE Trim(resp.text)
ProcessWithGemini(rawText, resp) ==
    IF ~hasGeminiKey THEN rawText
    ELSE IF resp.kind # "ok" THEN rawText
    ELSE IF Truthy(Trim(resp.text)) THEN Trim(resp.text)
    ELSE rawText

\* setMemo((prev) => prev ? `${prev}\n${processedText}` : processedText)
NoteAppendReplaces(prev, text) == text
NoteAppend(prev, text) ==
    IF Truthy(prev) THEN prev \o <<"\n">> \o text ELSE text

RECURSIVE Concat(_)
\* for (i < event.results.length) fullTranscript += event.results[i][0].transcript
Concat(segs) == IF segs = <<>> THEN <<>> ELSE Head(segs) \o Concat(Tail(segs))

Live(i) == sessions[i].phase \in {"starting", "listening", "stopping"}

\* onChange of the memo field
SetMemo(v) ==
    /\ route = "place"
    /\ memo' = v
    /\ cleanings' = [k \in 1..Len(cleanings) |->
                        [cleanings[k] EXCEPT !.edited = TRUE]]
    /\ UNCHANGED <<isNew, editId, name, tabId, errorsName>>
    /\ UNCHANGED <<isListening, isProcessingVoice, sessions, hasGeminiKey>>
    /\ UNCHANGED <<storeVars, navVars, searchVars, net>>
    /\ Quiet
    /\ UNCHANGED adapterVars

\* startVoiceInput: the voice button while it shows "start"; at most n
\* recognition objects are created
StartVoiceInputWithin(n) ==
    /\ route = "place"
    /\ ~isListening /\ ~isProcessingVoice
    /\ Len(sessions) < n
    /\ sessions' = Append(sessions,
          [phase |-> "starting", results |-> <<>>, stopped |-> FALSE])
    /\ UNCHANGED <<isListening, isProcessingVoice, cleanings, hasGeminiKey>>
    /\ UNCHANGED navVars
    /\ UNCHANGED <<storeVars, formVars, searchVars, net>>
    /\ Quiet
    /\ UNCHANGED adapterVars

StartVoiceInput == StartVoiceInputWithin(MaxSessions)

\* stopVoiceInput: the voice button while it shows "stop".  It clears the
\* listening flag and leaves every recognition object running.
StopVoiceInput ==
    /\ route = "place"
    /\ isListening /\ ~isProcessingVoice
    /\ isListening' = FALSE
    /\ sessions' = [i \in 1..Len(sessions) |->
          IF sessions[i].phase = "listening" /\ sessions[i].results = <<>>
          THEN [sessions[i] EXCEPT !.stopped = TRUE]
          ELSE sessions[i]]
    /\ UNCHANGED <<isProcessingVoice, cleanings, hasGeminiKey>>
    /\ UNCHANGED <<storeVars, navVars, formVars, searchVars, net>>
    /\ Quiet
    /\ UNCHANGED adapterVars

\* recognition.onstart
OnStart(i) ==
    /\ route = "place"
    /\ i \in 1..Len(sessions) /\ sessions[i].phase = "starting"
    /\ sessions' = [sessions EXCEPT ![i].phase = "listening"]
    /\ isListening' = TRUE
    /\ UNCHANGED <<isProcessingVoice, cleanings, hasGeminiKey>>
    /\ UNCHANGED <<storeVars, navVars, formVars, searchVars, net>>
    /\ Quiet
    /\ UNCHANGED adapterVars

\* recognition.onresult: concatenates every result of the session so far, calls
\* recognition.stop(), and sends a non-blank transcript to cleanup.  Without a
\* cleanup key processWithGemini resolves at once and the append follows in the
\* same turn.  The platform may deliver a further result after stop(), from the
\* audio captured so far.
OnResultWithin(i, seg, n) ==
    /\ route = "place"
    /\ i \in 1..Len(sessions) /\ sessions[i].phase \in {"listening", "stopping"}
    /\ Len(sessions[i].results) < n
    /\ LET results == Append(sessions[i].results, seg)
           fullTranscript == Concat(results)
           goes == Truthy(Trim(fullTranscript))
           text == ProcessWithGemini(fullTranscript, NoKeyResponse)
       IN  /\ sessions' = [sessions EXCEPT
                  ![i].results = results, ![i].phase = "stopping"]
           /\ isListening' = FALSE
           /\ IF ~goes
              THEN /\ UNCHANGED <<isProcessingVoice, cleanings, memo>>
                   /\ lastAppend' = NoAppend
              ELSE IF hasGeminiKey
              THEN /\ isProcessingVoice' = TRUE
                   /\ cleanings' = Append(cleanings,
                         [raw |-> fullTranscript, edited |-> FALSE])
                   /\ UNCHANGED memo
                   /\ lastAppend' = NoAppend
              ELSE /\ memo' = NoteAppend(memo, text)
                   /\ isProcessingVoice' = FALSE
                   /\ lastAppend' = [done |-> TRUE, raw |-> fullTranscript,
                                     resp |-> NoKeyResponse, text |-> text,
                                     prev |-> memo, edited |-> FALSE]
                   /\ UNCHANGED cleanings
    /\ lastWrite' = NoWrite
    /\ UNCHANGED <<isNew, editId, name, tabId, errorsName, hasGeminiKey>>
    /\ UNCHANGED <<storeVars, navVars, searchVars, net>>
    /\ UNCHANGED adapterVars

OnResult(i, seg) == OnResultWithin(i, seg, MaxSegments)

\* The continuation of onresult after await processWithGemini(fullTranscript)
CleaningDone(k, resp) ==
    /\ route = "place"
    /\ k \in 1..Len(cleanings)
    /\ LET c == cleanings[k]
           text == ProcessWithGemini(c.raw, resp)
       IN  /\ memo' = NoteAppend(memo, text)
           /\ lastAppend' = [done |-> TRUE, raw |-> c.raw, resp |-> resp,
                             text |-> text, prev |-> memo,
                             edited |-> c.edited]
    /\ cleanings' = SubSeq(cleanings, 1, k - 1) \o SubSeq(cleanings, k + 1, Len(cleanings))
    /\ isProcessingVoice' = FALSE
    /\ lastWrite' = NoWrite
    /\ UNCHANGED <<isListening, sessions, hasGeminiKey>>
    /\ UNCHANGED <<isNew, editId, name, tabId, errorsName>>
    /\ UNCHANGED <<storeVars, navVars, searchVars, net>>
    /\ UNCHANGED adapterVars

\* recognition.onerror (the platform then ends the session).  The toasts of the
\* voice handlers differ per error and are not part of the state kept here.
OnError(i, error) ==
    /\ route = "place"
    /\ i \in 1..Len(sessions) /\ Live(i)
    /\ sessions' = [sessions EXCEPT ![i] =
          [phase |-> "ended", results |-> <<>>, stopped |-> FALSE]]
    /\ isListening' = FALSE
    /\ error \in {"not-allowed", "no-speech", "network"}
    /\ UNCHANGED <<isProcessingVoice, cleanings, hasGeminiKey>>
    /\ UNCHANGED <<storeVars, navVars, formVars, searchVars, net>>
    /\ Quiet
    /\ UNCHANGED adapterVars

\* recognition.onend
OnEnd(i) ==
    /\ route = "place"
    /\ i \in 1..Len(sessions) /\ sessions[i].phase \in {"listening", "stopping"}
    /\ sessions' = [sessions EXCEPT ![i] =
          [phase |-> "ended", results |-> <<>>, stopped |-> FALSE]]
    /\ isListening' = FALSE
    /\ UNCHANGED <<isProcessingVoice, cleanings, hasGeminiKey>>
    /\ UNCHANGED <<storeVars, navVars, formVars, searchVars, net>>
    /\ Quiet
    /\ UNCHANGED adapterVars

InitVoicePage ==
    /\ InitAdapters
    /\ InitStore /\ InitVoice /\ InitSearchPage /\ InitObs
    /\ hasGeminiKey \in BOOLEAN /\ rev = 2
    /\ route = "place" /\ toast = "none"
    /\ isNew = TRUE /\ editId = 0
    /\ name = <<>> /\ memo = <<>> /\ tabId = "frequent" /\ errorsName = FALSE

NextVoice ==
    \/ \E v \in Memos : SetMemo(v)
    \/ StartVoiceInput
    \/ StopVoiceInput
    \/ \E i \in 1..MaxSessions : OnStart(i)
    \/ \E i \in 1..MaxSessions, seg \in Segments : OnResult(i, seg)
    \/ \E k \in 1..(MaxSessions * MaxSegments), resp \in CleanupResponses :
          CleaningDone(k, resp)
    \/ \E i \in 1..MaxSessions, e \in {"not-allowed", "no-speech", "network"} :
          OnError(i, e)
    \/ \E i \in 1..MaxSessions : OnEnd(i)

SpecVoice == InitVoicePage /\ [][NextVoice]_vars

----------------------------------------------------------------------------
(* SearchPage: debounced suggestions, selection, register-and-navigate.     *)
(* Two revisions of the page are in the sources: rev 1 (searchPlaces behind *)
(* a timer) and rev 2 (the timer callback compares queryRef.current with    *)
(* the value it was armed for).  queryRef and isReadyRef are synced by      *)
(* effects on every commit, so they are read here as query and isReady.     *)

\* Inputs the user types into the search field
Queries == { <<>>, <<"a">>, <<"b">> }

\* Place names a Place Details result can carry (none, blank, plain)
DetailNames == { <<>>, <<" ">>, <<"n">> }

\* What getPlaceDetails can resolve to
NoDetails == [found |-> FALSE]
PlaceDetails ==
    {NoDetails} \cup {[found |-> TRUE, located |-> TRUE, name |-> n,
                        lat |-> 356812345, lng |-> 1397671250] : n \in DetailNames}
                \cup {[found |-> TRUE, located |-> FALSE, name |-> <<"n">>]}

\* Positions a drag or a long press can put the pin at
PinPositions ==
    { [lat |-> 356812345, lng |-> 1397671250], [lat |-> 356800000, lng |-> 1397700000] }

\* What reverseGeocode hands to onLocationChange
GeocodeAddresses == { <<>>, <<" ", ",", "t">> }
GeocodeNames == { <<>>, <<"n">> }

\* "up to 20 entries"
MAX_SEARCH_HISTORY == 20

\* addSearchHistory(query, placeId): prepend, keep the 20 most recent
AddSearchHistoryNoTruncate(h, q, placeId, t) ==
    <<[query |-> q, placeId |-> placeId, timestamp |-> t]>> \o h
AddSearchHistory(h, q, placeId, t) ==
    LET all == <<[query |-> q, placeId |-> placeId, timestamp |-> t]>> \o h
    IN  IF Len(all) > MAX_SEARCH_HISTORY THEN SubSeq(all, 1, MAX_SEARCH_HISTORY)
        ELSE all

RECURSIVE PriorHistory(_)
\* The history persisted by n selections made before the page is mounted
\* (their timestamps end at the mount time 0)
PriorHistory(n) ==
    IF n = 0 THEN <<>>
    ELSE LET h == PriorHistory(n - 1)
         IN  AddSearchHistory(
                 [i \in 1..Len(h) |-> [h[i] EXCEPT !.timestamp = @ - 1]],
                 <<"p">>, <<"p">>, 0)

\* predictions.map(p => ({text: main_text, placeId: place_id})) for an input
Suggest(value) == << [text |-> value, placeId |-> value] >>

RECURSIVE SplitHead(_)
\* address.split(',')[0]
SplitHead(s) ==
    IF s = <<>> \/ Head(s) = "," THEN <<>>
    ELSE <<Head(s)>> \o SplitHead(Tail(s))

RemoveAt(s, k) == SubSeq(s, 1, k - 1) \o SubSeq(s, k + 1, Len(s))

\* handleInputChange(value)
HandleInputChange(value) ==
    /\ route = "search"
    /\ query' = value
    /\ selectedPlace' = NoSelection
    /\ IF Truthy(Trim(value))
       THEN /\ debounce' = [armed |-> TRUE, value |-> value,
                            ready |-> IF rev = 1 THEN isReady ELSE TRUE,
                            token |-> IF rev = 1 THEN sessionToken ELSE 0]
            /\ isSearching' = IF rev = 1 THEN isSearching ELSE TRUE
            /\ UNCHANGED suggestions
       ELSE /\ debounce' = NoTimer
            /\ suggestions' = <<>>
            /\ isSearching' = IF rev = 1 THEN isSearching ELSE FALSE
    /\ selectedSinceInput' = FALSE
    /\ UNCHANGED <<rev, predInFlight, detailsInFlight, isReady>>
    /\ UNCHANGED <<storeVars, navVars, formVars, voiceVars, net>>
    /\ Quiet
    /\ UNCHANGED adapterVars

\* The debounce timer fires: rev 1 runs searchPlaces(value) as closed over when
\* the timer was armed; rev 2 runs the inline callback up to its await
TimerFire ==
    /\ route = "search"
    /\ debounce.armed
    /\ debounce' = NoTimer
    /\ LET ready == IF rev = 1 THEN debounce.ready ELSE isReady
           token == IF rev = 1 THEN debounce.token ELSE sessionToken
       IN  IF ~ready
           THEN /\ isSearching' = (rev = 1)
                /\ UNCHANGED <<predInFlight, tokenLog>>
           ELSE /\ Len(predInFlight) < MaxInFlight
                /\ isSearching' = TRUE
                /\ predInFlight' = Append(predInFlight, debounce.value)
                /\ tokenLog' = [tokenLog EXCEPT !.request = token]
    /\ UNCHANGED <<rev, query, suggestions, selectedPlace, detailsInFlight, isReady>>
    /\ UNCHANGED selectedSinceInput
    /\ UNCHANGED <<storeVars, navVars, formVars, voiceVars, net>>
    /\ Quiet
    /\ UNCHANGED <<locateVars, mapVars, callVars, sessionToken>>

\* usePlacesAutocomplete becomes ready; rev 1 then re-runs the search for the
\* query on screen if no suggestions are shown
BecomeReady ==
    /\ route = "search"
    /\ ~isReady
    /\ isReady' = TRUE
    /\ sessionToken' = sessionToken + 1
    /\ IF rev = 1 /\ Truthy(Trim(query)) /\ suggestions = <<>>
       THEN /\ Len(predInFlight) < MaxInFlight
            /\ isSearching' = TRUE
            /\ predInFlight' = Append(predInFlight, query)
            /\ tokenLog' = [tokenLog EXCEPT !.request = sessionToken']
       ELSE UNCHANGED <<isSearching, predInFlight, tokenLog>>
    /\ UNCHANGED <<rev, query, suggestions, selectedPlace, debounce, detailsInFlight>>
    /\ UNCHANGED selectedSinceInput
    /\ UNCHANGED <<storeVars, navVars, formVars, voiceVars, net>>
    /\ Quiet
    /\ UNCHANGED <<locateVars, mapVars, callVars>>

\* The continuation after await getPlacePredictions(value); the service answers
\* with predictions for the value, or with none
PredictionsResponse(k, some) ==
    /\ route = "search"
    /\ k \in 1..Len(predInFlight)
    /\ LET value == predInFlight[k]
           predictions == IF some THEN Suggest(value) ELSE <<>>
       IN  suggestions' = IF rev = 2 /\ query # value THEN suggestions
                          ELSE predictions
    /\ isSearching' = FALSE
    /\ predInFlight' = RemoveAt(predInFlight, k)
    /\ UNCHANGED <<rev, query, selectedPlace, debounce, detailsInFlight, isReady>>
    /\ UNCHANGED selectedSinceInput
    /\ UNCHANGED <<storeVars, navVars, formVars, voiceVars, net>>
    /\ Quiet
    /\ UNCHANGED adapterVars

\* handleSelectSuggestion(suggestion), up to its await getPlaceDetails
HandleSelectSuggestion(s) ==
    /\ route = "search"
    /\ \E i \in 1..Len(suggestions) : suggestions[i] = s
    /\ Len(detailsInFlight) < MaxInFlight
    /\ now + Len(detailsInFlight) < MaxSelections
    /\ isSearching' = TRUE
    /\ suggestions' = IF rev = 1 THEN suggestions ELSE <<>>
    /\ detailsInFlight' = Append(detailsInFlight,
          [text |-> s.text, placeId |-> s.placeId, token |-> sessionToken])
    /\ selectedSinceInput' = TRUE
    /\ UNCHANGED <<rev, query, selectedPlace, debounce, predInFlight, isReady>>
    /\ UNCHANGED <<storeVars, navVars, formVars, voiceVars, net>>
    /\ Quiet
    /\ UNCHANGED adapterVars

\* The continuation of handleSelectSuggestion after await getPlaceDetails.  It
\* records the search in the history even when the page has been left; the
\* state setters of a page that is no longer mounted do nothing.
DetailsResponse(k, details) ==
    /\ k \in 1..Len(detailsInFlight)
    /\ details.found => sessionToken < MaxTokens
    /\ LET s == detailsInFlight[k]
           ok == details.found /\ details.located
           mounted == route = "search"
       IN  /\ IF ok
              THEN /\ searchHistory' =
                        AddSearchHistory(searchHistory, s.text, s.placeId, now + 1)
                   /\ now' = now + 1
              ELSE UNCHANGED <<searchHistory, now>>
           /\ selectedPlace' =
                 IF ok /\ mounted
                 THEN [placeId |-> s.placeId,
                       name |-> IF Truthy(details.name) THEN details.name ELSE s.text,
                       address |-> <<>>,
                       latitude |-> details.lat, longitude |-> details.lng]
                 ELSE selectedPlace
           /\ query' = IF ok /\ mounted /\ rev = 2 THEN <<>> ELSE query
           /\ suggestions' = IF ok /\ mounted /\ rev = 1 THEN <<>> ELSE suggestions
           /\ isSearching' = IF mounted THEN FALSE ELSE isSearching
           /\ sessionToken' = IF details.found /\ mounted THEN sessionToken + 1
                              ELSE sessionToken
           /\ tokenLog' = IF details.found
                          THEN [tokenLog EXCEPT !.spent = Append(@, s.token)]
                          ELSE tokenLog
    /\ detailsInFlight' = RemoveAt(detailsInFlight, k)
    /\ UNCHANGED <<rev, debounce, predInFlight, isReady>>
    /\ UNCHANGED selectedSinceInput
    /\ UNCHANGED <<places, tabs, nextId>>
    /\ UNCHANGED <<navVars, formVars, voiceVars, net>>
    /\ Quiet
    /\ UNCHANGED <<locateVars, mapVars, callVars>>

\* The selected place after onLocationChange(lat, lng, address, name)
LocationChange(lat, lng, addr, placeName) ==
    IF selectedPlace = NoSelection THEN selectedPlace
    ELSE [selectedPlace EXCEPT
             !.latitude = lat, !.longitude = lng, !.address = addr,
             !.name = IF Truthy(placeName) THEN placeName
                      ELSE IF Truthy(SplitHead(addr)) THEN SplitHead(addr)
                      ELSE selectedPlace.name]

\* InteractiveMap's onLocationChange(lat, lng, address, name) in rev 2
OnLocationChange(lat, lng, addr, placeName) ==
    /\ route = "search" /\ rev = 2
    /\ selectedPlace # NoSelection
    /\ selectedPlace' = LocationChange(lat, lng, addr, placeName)
    /\ UNCHANGED <<rev, selectedSinceInput, query, isSearching, suggestions, debounce,
                   predInFlight, detailsInFlight, isReady>>
    /\ UNCHANGED <<storeVars, navVars, formVars, voiceVars, net>>
    /\ Quiet
    /\ UNCHANGED adapterVars

\* The fields handleBoth hands to the store
BothFields ==
    [name |-> selectedPlace.name, memo |-> <<>>, address |-> selectedPlace.address,
     latitude |-> selectedPlace.latitude, longitude |-> selectedPlace.longitude,
     tabId |-> "frequent"]

\* handleBoth ("register and navigate"): savePlace, toast, navigate('/').
\* Leaving the page drops its state; timer and prediction callbacks still
\* pending would only set that state.
HandleBoth ==
    /\ route = "search"
    /\ selectedPlace # NoSelection
    /\ places' = SavePlace(places, BothFields, nextId, now)
    /\ nextId' = nextId + 1
    /\ toast' = "saved"
    /\ route' = "home"
    /\ query' = <<>> /\ isSearching' = FALSE /\ suggestions' = <<>>
    /\ selectedPlace' = NoSelection /\ debounce' = NoTimer
    /\ predInFlight' = <<>> /\ isReady' = FALSE /\ sessionToken' = 0
    /\ selectedSinceInput' = FALSE
    /\ net' = NetSave(net, nextId, BothFields)
    /\ lastWrite' = [op |-> "save", id |-> nextId, found |-> TRUE]
    /\ lastAppend' = NoAppend
    /\ UNCHANGED <<tabs, searchHistory, now, rev, detailsInFlight>>
    /\ UNCHANGED <<formVars, voiceVars>>
    /\ UNCHANGED <<locateVars, loaderVars, callVars, tokenLog>>
    /\ pinMoves' = 0 /\ pinInFlight' = <<>> /\ pinApplied' = 0

InitSearch ==
    /\ InitAdapters
    /\ InitStore /\ InitForm /\ InitVoice /\ InitSearchPage /\ InitObs
    /\ hasGeminiKey = FALSE /\ rev \in {1, 2}
    /\ route = "search" /\ toast = "none"

NextSearch ==
    \/ \E v \in Queries : HandleInputChange(v)
    \/ TimerFire
    \/ BecomeReady
    \/ \E k \in 1..MaxInFlight, some \in BOOLEAN : PredictionsResponse(k, some)
    \/ \E v \in Queries : HandleSelectSuggestion(Suggest(v)[1])
    \/ \E k \in 1..MaxInFlight, d \in PlaceDetails : DetailsResponse(k, d)
    \/ \E p \in PinPositions, a \in GeocodeAddresses, n \in GeocodeNames :
          OnLocationChange(p.lat, p.lng, a, n)
    \/ HandleBoth

SpecSearch == InitSearch /\ [][NextSearch]_vars

----------------------------------------------------------------------------
(* The search history under repeated selections, starting from a history    *)
(* persisted by earlier visits                                              *)

\* Numbers of earlier insertions: none, and around the cap
PriorCounts == {0} \cup ((MaxPrior - 2)..MaxPrior)

InitHistory ==
    /\ InitLocate /\ InitPin /\ InitLoader /\ hasMapsKey = TRUE
    /\ sessionToken = 1 /\ tokenLog = NoTokenLog
    /\ adapterCall = NoCall /\ home = NoHome
    /\ places = <<>> /\ tabs = DEFAULT_TABS /\ now = 0 /\ nextId = 1
    /\ \E n \in PriorCounts : searchHistory = PriorHistory(n)
    /\ InitForm /\ InitVoice /\ InitObs
    /\ query = <<>> /\ isSearching = FALSE /\ suggestions = <<>>
    /\ selectedPlace = NoSelection /\ debounce = NoTimer
    /\ predInFlight = <<>> /\ detailsInFlight = <<>>
    /\ isReady = TRUE /\ selectedSinceInput = FALSE
    /\ hasGeminiKey = FALSE /\ rev = 2
    /\ route = "search" /\ toast = "none"

NextHistory ==
    \/ \E v \in {<<"a">>, <<"b">>} : HandleInputChange(v)
    \/ TimerFire
    \/ \E k \in 1..MaxInFlight : PredictionsResponse(k, TRUE)
    \/ \E v \in {<<"a">>, <<"b">>} : HandleSelectSuggestion(Suggest(v)[1])
    \/ \E k \in 1..MaxInFlight :
          DetailsResponse(k, [found |-> TRUE, located |-> TRUE, name |-> <<"n">>,
                              lat |-> 356812345, lng |-> 1397671250])

SpecHistory == InitHistory /\ [][NextHistory]_vars

----------------------------------------------------------------------------
(* lib/maps.ts: the location and geocoding adapters, and the current-       *)
(* location branch of PlacePage's loadData that uses them.                  *)
(* A coordinate is an integer count of 1e-7 degrees.  In address strings    *)
(* "N" stands for the country name and "P" for a postal code.               *)

RECURSIVE NatToStr(_)
\* decimal digits of a natural number
NatToStr(n) ==
    IF n < 10 THEN <<DigitChars[n + 1]>>
    ELSE NatToStr(n \div 10) \o <<DigitChars[(n % 10) + 1]>>

RECURSIVE PadZeros(_, _)
PadZeros(s, w) == IF Len(s) >= w THEN s ELSE PadZeros(<<"0">> \o s, w)

\* Number.prototype.toFixed(6): sign, then the magnitude rounded half up
ToFixed6(c) ==
    LET a == IF c < 0 THEN 0 - c ELSE c
        r == (a + 5) \div 10
    IN  (IF c < 0 THEN <<"-">> ELSE <<>>)
            \o NatToStr(r \div 1000000) \o <<".">>
            \o PadZeros(NatToStr(r % 1000000), 6)

\* `${latitude.toFixed(6)}, ${longitude.toFixed(6)}`
CoordString(lat, lng) == ToFixed6(lat) \o <<",", " ">> \o ToFixed6(lng)

\* Positions the platform can report
Latitudes == {0, 356812345, 0 - 900000000}
Longitudes == {0 - 5, 4, 1397671250, 1800000000}

\* What navigator.geolocation can do with a getCurrentPosition call
LocationOutcomes ==
    {[kind |-> "unsupported"]}
       \cup {[kind |-> "position", lat |-> la, lng |-> lo] :
                la \in Latitudes, lo \in Longitudes}
       \cup {[kind |-> "error", code |-> c] : c \in 0..4}

\* getCurrentLocation() whose switch has no default branch: the promise stays
\* pending for an error code other than the three named ones
GetCurrentLocationNoDefault(o) ==
    IF o.kind = "unsupported" THEN [kind |-> "rejected", message |-> "unsupported"]
    ELSE IF o.kind = "position"
    THEN [kind |-> "resolved", lat |-> o.lat, lng |-> o.lng]
    ELSE IF o.code \in 1..3
    THEN [kind |-> "rejected",
          message |-> CASE o.code = 1 -> "permission_denied"
                        [] o.code = 2 -> "position_unavailable"
                        [] o.code = 3 -> "timeout"]
    ELSE [kind |-> "pending"]

\* getCurrentLocation(): how the promise settles, given what the platform does
GetCurrentLocation(o) ==
    IF o.kind = "unsupported" THEN [kind |-> "rejected", message |-> "unsupported"]
    ELSE IF o.kind = "position"
    THEN [kind |-> "resolved", lat |-> o.lat, lng |-> o.lng]
    ELSE [kind |-> "rejected",
          message |-> CASE o.code = 1 -> "permission_denied"
                        [] o.code = 2 -> "position_unavailable"
                        [] o.code = 3 -> "timeout"
                        [] OTHER      -> "failed"]

\* Results of the Geocoding API
GeocodeHits ==
    { << [formatted_address |-> <<"N", ",", "P", " ", "t">>,
          types |-> {"street_address"}, name |-> <<>>] >>,
      << [formatted_address |-> <<"t">>, types |-> {"route"}, name |-> <<>>],
         [formatted_address |-> <<"N", "s", ",", "u">>,
          types |-> {"premise"}, name |-> <<>>] >>,
      << [formatted_address |-> <<"P", "v">>,
          types |-> {"point_of_interest", "establishment"}, name |-> <<"n">>] >> }

\* What fetch(url) and response.json() can do
GeocodeOutcomes ==
    { [kind |-> "fetch_rejects"], [kind |-> "json_rejects"],
      [kind |-> "json", status |-> "ZERO_RESULTS", results |-> <<>>],
      [kind |-> "json", status |-> "REQUEST_DENIED", results |-> <<>>],
      [kind |-> "json", status |-> "OK", results |-> <<>>] }
       \cup {[kind |-> "json", status |-> "OK", results |-> h] : h \in GeocodeHits}

RECURSIVE DropWhile(_, _)
DropWhile(s, chars) ==
    IF s # <<>> /\ Head(s) \in chars THEN DropWhile(Tail(s), chars) ELSE s

\* address.replace(/^N,?P\s*/, '') (country name, postal code)
StripCountryPostal(s) ==
    LET a == IF s # <<>> /\ Head(s) = "N" THEN Tail(s) ELSE <<"!">>
        b == IF a # <<>> /\ Head(a) = "," THEN Tail(a) ELSE a
    IN  IF b # <<>> /\ Head(b) = "P" THEN DropWhile(Tail(b), {" "}) ELSE s

\* the first result of a specific type gives the place name
RECURSIVE PlaceNameOf(_)
PlaceNameOf(results) ==
    IF results = <<>> THEN <<>>
    ELSE LET r == Head(results)
         IN  IF r.types \cap {"point_of_interest", "establishment", "premise"} # {}
             THEN IF Truthy(r.name) THEN r.name ELSE SplitHead(r.formatted_address)
             ELSE PlaceNameOf(Tail(results))

\* reverseGeocode(latitude, longitude, apiKey), given what the network does:
\* a rejected fetch or response.json() rejects the returned promise
ReverseGeocode(lat, lng, o) ==
    IF o.kind # "json" THEN [kind |-> "rejected"]
    ELSE IF o.status # "OK" \/ Len(o.results) = 0
    THEN [kind |-> "resolved", address |-> CoordString(lat, lng), placeName |-> <<>>]
    ELSE [kind |-> "resolved",
          address |-> StripCountryPostal(o.results[1].formatted_address),
          placeName |-> PlaceNameOf(o.results)]

RECURSIVE RemoveFirst(_, _)
RemoveFirst(s, ch) ==
    IF s = <<>> THEN <<>>
    ELSE IF Head(s) = ch THEN Tail(s)
    ELSE <<Head(s)>> \o RemoveFirst(Tail(s), ch)

\* parseAddress(fullAddress).address: postal code, country name and leading
\* separators removed
ParseAddress(s) ==
    LET a == Trim(RemoveFirst(s, "P"))
        b == Trim(IF a # <<>> /\ Head(a) = "N"
                  THEN (IF Tail(a) # <<>> /\ Head(Tail(a)) = ","
                        THEN Tail(Tail(a)) ELSE Tail(a))
                  ELSE a)
    IN  Trim(DropWhile(b, {",", " "}))

\* navigate('/place/new?useCurrentLocation=true'): loadData calls
\* getCurrentLocation()
OpenNewCurrentLocation ==
    /\ route = "home"
    /\ route' = "place" /\ isNew' = TRUE
    /\ loadStep' = "locating"
    /\ UNCHANGED <<coords, address, locResult, geoResult, hasMapsKey, mapVars>>
    /\ UNCHANGED <<editId, name, memo, tabId, errorsName, toast>>
    /\ UNCHANGED <<storeVars, voiceVars, searchVars, net>>
    /\ UNCHANGED <<tokenVars, callVars>>
    /\ Quiet

\* The getCurrentLocation promise settles and loadData continues up to its
\* next await: the coordinates are set and reverseGeocode is called, or the
\* coordinate string is the address when no maps key is configured; a
\* rejection is shown as a toast.
LocationSettles(o) ==
    /\ route = "place" /\ loadStep = "locating"
    /\ LET res == GetCurrentLocation(o)
       IN  /\ locResult' = res
           /\ IF res.kind = "resolved"
              THEN /\ coords' = [lat |-> res.lat, lng |-> res.lng]
                   /\ loadStep' = IF hasMapsKey THEN "geocoding" ELSE "done"
                   /\ address' = IF hasMapsKey THEN address
                                 ELSE CoordString(res.lat, res.lng)
                   /\ UNCHANGED toast
              ELSE /\ toast' = res.message
                   /\ loadStep' = "done"
                   /\ UNCHANGED <<coords, address>>
    /\ UNCHANGED <<geoResult, hasMapsKey, mapVars, route>>
    /\ UNCHANGED <<storeVars, formVars, voiceVars, searchVars, net>>
    /\ UNCHANGED <<tokenVars, callVars>>
    /\ Quiet

\* The reverseGeocode promise settles and loadData finishes: address and name
\* are filled from the result, or the rejection is shown as a toast.
GeocodeSettles(o) ==
    /\ route = "place" /\ loadStep = "geocoding"
    /\ LET res == ReverseGeocode(coords.lat, coords.lng, o)
       IN  /\ geoResult' = res
           /\ IF res.kind = "resolved"
              THEN /\ address' = res.address
                   /\ name' = IF Truthy(res.placeName)
                              THEN (IF Truthy(ParseAddress(res.placeName))
                                    THEN ParseAddress(res.placeName)
                                    ELSE res.address)
                              ELSE name
                   /\ UNCHANGED toast
              ELSE /\ toast' = "geocode_rejected"
                   /\ UNCHANGED <<address, name>>
    /\ loadStep' = "done"
    /\ UNCHANGED <<coords, locResult, hasMapsKey, mapVars, route>>
    /\ UNCHANGED <<isNew, editId, memo, tabId, errorsName>>
    /\ UNCHANGED <<storeVars, voiceVars, searchVars, net>>
    /\ UNCHANGED <<tokenVars, callVars>>
    /\ Quiet

\* The user leaves the form (back button)
LeaveForm ==
    /\ route = "place" /\ loadStep = "done"
    /\ route' = "home"
    /\ isNew' = FALSE /\ name' = <<>>
    /\ loadStep' = "idle" /\ coords' = NoCoords /\ address' = <<>>
    /\ locResult' = NoResult /\ geoResult' = NoResult
    /\ UNCHANGED <<editId, memo, tabId, errorsName, hasMapsKey, mapVars, toast>>
    /\ UNCHANGED <<storeVars, voiceVars, searchVars, net>>
    /\ UNCHANGED <<tokenVars, callVars>>
    /\ Quiet

InitLocatePage ==
    /\ InitStore /\ InitForm /\ InitVoice /\ InitSearchPage /\ InitObs
    /\ InitLocate /\ InitPin /\ InitLoader /\ hasMapsKey \in BOOLEAN
    /\ sessionToken = 0 /\ tokenLog = NoTokenLog
    /\ adapterCall = NoCall /\ home = NoHome
    /\ hasGeminiKey = FALSE /\ rev = 2
    /\ route = "home" /\ toast = "none"

NextLocate ==
    \/ OpenNewCurrentLocation
    \/ \E o \in LocationOutcomes : LocationSettles(o)
    \/ \E o \in GeocodeOutcomes : GeocodeSettles(o)
    \/ LeaveForm

SpecLocate == InitLocatePage /\ [][NextLocate]_vars

----------------------------------------------------------------------------
(* Adapter functions called on their own.  Each action applies one function  *)
(* to arguments drawn from bounded sets and records the outcome; the         *)
(* platform's answer (a callback status, a thrown exception) is an argument  *)
(* of the operator that models the function.                                 *)

appVars == <<storeVars, navVars, formVars, voiceVars, searchVars,
             locateVars, mapVars, tokenVars, obsVars, home>>

Resolved(v) == [kind |-> "resolved", value |-> v]
Rejected(m) == [kind |-> "rejected", message |-> m]

\* Input strings of the autocomplete adapters
Inputs == {<<>>, <<" ">>, <<" ", " ">>, <<"a">>, <<" ", "a">>, <<"a", " ">>}

\* What AutocompleteService.getPlacePredictions does with a request: it throws,
\* or it calls back with a status and a prediction list (null or a list).
PredictionOutcomes ==
    {[kind |-> "throws"]}
    \cup {[kind |-> "callback", status |-> st, predictions |-> p] :
            st \in {"OK", "ZERO_RESULTS", "INVALID_REQUEST", "OVER_QUERY_LIMIT"},
            p \in {[null |-> TRUE, list |-> <<>>],
                   [null |-> FALSE, list |-> <<>>],
                   [null |-> FALSE, list |-> <<"p1">>],
                   [null |-> FALSE, list |-> <<"p1", "p2">>]}}

\* usePlacesAutocomplete.getPlacePredictions(input): hasService and token are
\* the hook's autocompleteService and sessionToken state.
GetPlacePredictions(hasService, token, input, o) ==
    IF ~hasService \/ token = 0 \/ ~Truthy(Trim(input))
    THEN Resolved(<<>>)
    ELSE IF o.kind = "throws" THEN Resolved(<<>>)
    ELSE IF o.status = "OK" /\ ~o.predictions.null
    THEN Resolved(o.predictions.list)
    ELSE Resolved(<<>>)

\* lib/maps getAutocomplete(input, sessionToken): hasService is the value of
\* getAutocompleteService() (null until the Places library is loaded).  An
\* exception thrown inside the Promise executor rejects the promise.
GetAutocomplete(hasService, token, input, o) ==
    IF ~hasService THEN Rejected("Places service not initialized")
    ELSE IF o.kind = "throws" THEN Rejected("thrown")
    ELSE IF o.status = "OK" /\ ~o.predictions.null
    THEN Resolved(o.predictions.list)
    ELSE IF o.status = "ZERO_RESULTS" THEN Resolved(<<>>)
    ELSE Rejected("Failed to get autocomplete predictions")

CallGetPlacePredictions(hasService, token, input, o) ==
    /\ adapterCall' = [fn |-> "getPlacePredictions",
                       ready |-> hasService /\ token # 0, input |-> input,
                       out |-> GetPlacePredictions(hasService, token, input, o)]
    /\ UNCHANGED appVars

CallGetAutocomplete(hasService, token, input, o) ==
    /\ adapterCall' = [fn |-> "getAutocomplete",
                       ready |-> hasService /\ token # 0, input |-> input,
                       out |-> GetAutocomplete(hasService, token, input, o)]
    /\ UNCHANGED appVars

RECURSIVE StripZeros(_)
\* a digit string without its trailing zeros
StripZeros(s) ==
    IF s # <<>> /\ s[Len(s)] = "0" THEN StripZeros(SubSeq(s, 1, Len(s) - 1)) ELSE s

\* Number::toString of a coordinate without its last decimals: six decimals
\* are kept
NumberToStringSixDecimals(c) ==
    LET a == IF c < 0 THEN 0 - c ELSE c
        frac == StripZeros(PadZeros(NatToStr((a % 10000000) \div 10), 6))
    IN  (IF c < 0 /\ a >= 10 THEN <<"-">> ELSE <<>>)
            \o NatToStr(a \div 10000000)
            \o (IF frac = <<>> THEN <<>> ELSE <<".">> \o frac)

\* Number::toString, as a template literal applies it to a coordinate: c
\* counts 1e-7 degrees.  Zero is "0"; a magnitude below 1e-6 is written with
\* an exponent ("5e-7"); otherwise the integer part, and the decimals without
\* trailing zeros when there are any.
NumberToString(c) ==
    LET a == IF c < 0 THEN 0 - c ELSE c
        frac == StripZeros(PadZeros(NatToStr(a % 10000000), 7))
    IN  IF a = 0 THEN <<"0">>
        ELSE (IF c < 0 THEN <<"-">> ELSE <<>>)
                \o (IF a < 10 THEN NatToStr(a) \o <<"e", "-", "7">>
                    ELSE NatToStr(a \div 10000000)
                            \o (IF frac = <<>> THEN <<>> ELSE <<".">> \o frac))

TravelModes == {"driving", "transit", "walking"}

\* openNavigation(latitude, longitude, travelMode = 'driving'): the URL handed
\* to window.open, as a sequence of its fixed parts and of the characters of
\* the two numbers.  mode "undefined" is the omitted argument.
OpenNavigation(lat, lng, mode) ==
    <<"https://www.google.com/maps/dir/", "?", "api=1", "&", "destination=">>
        \o NumberToString(lat) \o <<",">> \o NumberToString(lng)
        \o <<"&", "travelmode=", IF mode = "undefined" THEN "driving" ELSE mode>>

CallOpenNavigation(lat, lng, mode) ==
    /\ adapterCall' = [fn |-> "openNavigation", lat |-> lat, lng |-> lng,
                       mode |-> mode, out |-> OpenNavigation(lat, lng, mode)]
    /\ UNCHANGED appVars

CallGetCurrentLocation(o) ==
    /\ adapterCall' = [fn |-> "getCurrentLocation", platform |-> o,
                       out |-> GetCurrentLocation(o)]
    /\ UNCHANGED appVars

InitCalls ==
    /\ InitAdapters
    /\ InitStore /\ InitForm /\ InitVoice /\ InitSearchPage /\ InitObs
    /\ hasGeminiKey = FALSE /\ rev = 2
    /\ route = "home" /\ toast = "none"

NextCalls ==
    \/ \E h \in BOOLEAN, t \in 0..1, i \in Inputs, o \in PredictionOutcomes :
          CallGetPlacePredictions(h, t, i, o)
    \/ \E h \in BOOLEAN, t \in 0..1, i \in Inputs, o \in PredictionOutcomes :
          CallGetAutocomplete(h, t, i, o)
    \/ \E o \in LocationOutcomes : CallGetCurrentLocation(o)
    \/ \E la \in Latitudes, lo \in Longitudes, mo \in TravelModes \cup {"undefined"} :
          CallOpenNavigation(la, lo, mo)

SpecCalls == InitCalls /\ [][NextCalls]_vars

-----------------------------------------------------------------------------
(* HomePage: the place list, filtered by the active tab and sorted by the    *)
(* chosen option.  Each action ends with the render it causes, in which      *)
(* useMemo recomputes filteredPlaces.                                        *)

SortOptions == {"name-asc", "created-asc", "created-desc"}

\* Collation rank of the characters that occur in names
CharRank(c) == CASE c = " " -> 0 [] c = "a" -> 1 [] c = "b" -> 2 [] OTHER -> 3

RECURSIVE LocaleCompare(_, _)
\* a.localeCompare(b, 'ja'): negative, zero or positive
LocaleCompare(a, b) ==
    IF a = <<>> /\ b = <<>> THEN 0
    ELSE IF a = <<>> THEN 0 - 1
    ELSE IF b = <<>> THEN 1
    ELSE IF CharRank(Head(a)) < CharRank(Head(b)) THEN 0 - 1
    ELSE IF CharRank(Head(a)) > CharRank(Head(b)) THEN 1
    ELSE LocaleCompare(Tail(a), Tail(b))

\* The comparator in which 'created-asc' falls through to the default branch
ComparatorNoAscending(a, b, sortOption) ==
    CASE sortOption = "name-asc" -> LocaleCompare(a.name, b.name)
      [] OTHER                   -> b.createdAt - a.createdAt

\* The comparator handed to sort: the switch on sortOption.  createdAt is the
\* store's timestamp, so new Date(createdAt).getTime() is its millisecond count.
Comparator(a, b, sortOption) ==
    CASE sortOption = "name-asc"    -> LocaleCompare(a.name, b.name)
      [] sortOption = "created-asc" -> a.createdAt - b.createdAt
      [] OTHER                      -> b.createdAt - a.createdAt

RECURSIVE InsertBefore(_, _, _)
\* x inserted before the first element that does not sort before it
InsertBefore(sorted, x, sortOption) ==
    IF sorted = <<>> THEN <<x>>
    ELSE IF Comparator(Head(sorted), x, sortOption) >= 0 THEN <<x>> \o sorted
    ELSE <<Head(sorted)>> \o InsertBefore(Tail(sorted), x, sortOption)

RECURSIVE ArraySortUnstable(_, _)
\* a sort that puts an element before the earlier elements it compares equal to
ArraySortUnstable(xs, sortOption) ==
    IF xs = <<>> THEN <<>>
    ELSE InsertBefore(ArraySortUnstable(SubSeq(xs, 1, Len(xs) - 1), sortOption),
                      xs[Len(xs)], sortOption)

RECURSIVE InsertStable(_, _, _)
\* x inserted before the first element that sorts after it
InsertStable(sorted, x, sortOption) ==
    IF sorted = <<>> THEN <<x>>
    ELSE IF Comparator(Head(sorted), x, sortOption) > 0 THEN <<x>> \o sorted
    ELSE <<Head(sorted)>> \o InsertStable(Tail(sorted), x, sortOption)

RECURSIVE ArraySort(_, _)
\* Array.prototype.sort with the comparator: a stable sort (ECMAScript 2019),
\* computed by insertion from the left
ArraySort(xs, sortOption) ==
    IF xs = <<>> THEN <<>>
    ELSE InsertStable(ArraySort(SubSeq(xs, 1, Len(xs) - 1), sortOption),
                      xs[Len(xs)], sortOption)

\* result.sort(...) without the copy: the array sorted is the array passed
SortInPlace(xs, sortOption) ==
    [sorted |-> ArraySort(xs, sortOption), source |-> ArraySort(xs, sortOption)]

\* [...result].sort(...): the sorted copy, and the array that was passed as it
\* is after the call
SortCopy(xs, sortOption) ==
    [sorted |-> ArraySort(xs, sortOption), source |-> xs]

RECURSIVE FilterByTab(_, _)
\* result.filter((p) => p.tabId === activeTabId)
FilterByTab(xs, t) ==
    IF xs = <<>> THEN <<>>
    ELSE (IF Head(xs).tabId = t THEN <<Head(xs)>> ELSE <<>>)
            \o FilterByTab(Tail(xs), t)

\* PlaceCard's getCategoryColor(tabId): colors[tabId] || 'bg-primary'
GetCategoryColor(t) ==
    CASE t = "frequent"    -> "bg-blue-500"
      [] t = "planned"     -> "bg-green-500"
      [] t = "revisit"     -> "bg-purple-500"
      [] t = "rest"        -> "bg-orange-500"
      [] t = "convenience" -> "bg-red-500"
      [] t = "toilet"      -> "bg-cyan-500"
      [] t = "other"       -> "bg-gray-500"
      [] OTHER             -> "bg-primary"

\* What a PlaceCard shows of the place's category: the category found by
\* getTabs().find(t => t.id === place.tabId), "none" when there is none (the
\* name is then '' and no badge is drawn), and the accent colour.
PlaceCardCategory(ts, place) ==
    [tabId |-> place.tabId,
     category |-> IF \E i \in 1..Len(ts) : ts[i].id = place.tabId
                  THEN place.tabId ELSE "none",
     color |-> GetCategoryColor(place.tabId)]

\* The render after a state change: filteredPlaces is recomputed.  When the
\* active tab is 'all' the array handed to the sort step is the places state
\* itself.  resorted observes the shown list sorted once more under the same
\* option; prev observes the render before.
Render(h) ==
    LET result == IF h.activeTabId # "all"
                  THEN FilterByTab(h.places, h.activeTabId) ELSE h.places
        s == SortCopy(result, h.sortOption)
    IN  [h EXCEPT !.places = IF h.activeTabId # "all" THEN h.places ELSE s.source,
                  !.filteredPlaces = s.sorted,
                  !.cards = [i \in 1..Len(s.sorted) |->
                                PlaceCardCategory(tabs, s.sorted[i])],
                  !.resorted = SortCopy(s.sorted, h.sortOption).sorted]

NoRender == [sortOption |-> "none"]

Shown(h) ==
    [sortOption |-> h.sortOption, activeTabId |-> h.activeTabId,
     filteredPlaces |-> h.filteredPlaces]

\* loadData(): on mount and when the page becomes visible again
LoadData ==
    /\ route = "home"
    /\ home' = Render([isLoading |-> FALSE, places |-> ListPlaces(places),
                       activeTabId |-> IF home.isLoading THEN "all"
                                       ELSE home.activeTabId,
                       sortOption |-> IF home.isLoading THEN "created-desc"
                                      ELSE home.sortOption,
                       filteredPlaces |-> <<>>, cards |-> <<>>, resorted |-> <<>>,
                       prev |-> NoRender])
    /\ UNCHANGED <<storeVars, navVars, formVars, voiceVars, searchVars>>
    /\ UNCHANGED <<locateVars, mapVars, tokenVars, obsVars, adapterCall>>

\* TabBar onTabChange
SetActiveTabId(t) ==
    /\ route = "home" /\ ~home.isLoading
    /\ t # home.activeTabId
    /\ home' = Render([home EXCEPT !.activeTabId = t, !.prev = Shown(home)])
    /\ UNCHANGED <<storeVars, navVars, formVars, voiceVars, searchVars>>
    /\ UNCHANGED <<locateVars, mapVars, tokenVars, obsVars, adapterCall>>

\* SortSelect onChange
SetSortOption(p) ==
    /\ route = "home" /\ ~home.isLoading
    /\ p # home.sortOption
    /\ home' = Render([home EXCEPT !.sortOption = p, !.prev = Shown(home)])
    /\ UNCHANGED <<storeVars, navVars, formVars, voiceVars, searchVars>>
    /\ UNCHANGED <<locateVars, mapVars, tokenVars, obsVars, adapterCall>>

\* The records a place list is drawn from: names and creation times repeat
StoredKinds ==
    { [name |-> <<"a">>,      createdAt |-> 1, tabId |-> "frequent"],
      [name |-> <<"a">>,      createdAt |-> 2, tabId |-> "planned"],
      [name |-> <<"b">>,      createdAt |-> 1, tabId |-> "frequent"],
      [name |-> <<"a", "b">>, createdAt |-> 2, tabId |-> "frequent"],
      [name |-> <<"b">>,      createdAt |-> 3, tabId |-> "planned"] }

\* The stored lists of at most MaxPlaces records; the id is the position
StoredLists ==
    UNION { { [i \in 1..n |->
                 [id |-> i, name |-> f[i].name, memo |-> <<>>,
                  tabId |-> f[i].tabId, createdAt |-> f[i].createdAt,
                  updatedAt |-> f[i].createdAt]] :
              f \in [1..n -> StoredKinds] } : n \in 0..MaxPlaces }

InitHome ==
    /\ InitAdapters
    /\ InitForm /\ InitVoice /\ InitSearchPage /\ InitObs
    /\ places \in StoredLists /\ tabs = DEFAULT_TABS /\ searchHistory = <<>>
    /\ now = 3 /\ nextId = Len(places) + 1
    /\ hasGeminiKey = FALSE /\ rev = 2
    /\ route = "home" /\ toast = "none"

NextHome ==
    \/ LoadData
    \/ \E t \in {"all", "frequent", "planned"} : SetActiveTabId(t)
    \/ \E p \in SortOptions : SetSortOption(p)

SpecHome == InitHome /\ [][NextHome]_vars

\* The user opens the category settings from the home page; HomePage unmounts
OpenTabs ==
    /\ route = "home"
    /\ route' = "tabs" /\ home' = NoHome
    /\ UNCHANGED <<toast, storeVars, formVars, voiceVars, searchVars>>
    /\ UNCHANGED <<locateVars, mapVars, tokenVars, obsVars, adapterCall>>

\* The user goes back to the home page
CloseTabs ==
    /\ route = "tabs"
    /\ route' = "home"
    /\ UNCHANGED <<toast, storeVars, formVars, voiceVars, searchVars>>
    /\ UNCHANGED <<locateVars, mapVars, tokenVars, obsVars, adapterCall, home>>

\* Categories, the place form and the home page together
NextCategory ==
    \/ OpenTabs
    \/ CloseTabs
    \/ (nextId <= MaxCategoryIds /\ CreateTab)
    \/ \E id \in {ToString(n) : n \in 1..MaxCategoryIds} : RemoveTab(id)
    \/ OpenNew
    \/ SetName(<<"a">>)
    \/ \E t \in {ToString(n) : n \in 1..MaxCategoryIds} \cup {"planned"} : SetTabId(t)
    \/ HandleSave
    \/ LoadData
    \/ \E t \in {"all", "frequent", "planned"} : SetActiveTabId(t)

SpecCategory == InitPlace /\ [][NextCategory]_vars

-----------------------------------------------------------------------------
(* Claims about the place form and the store *)

StoredSet(ps) == {Stored(ps[i].id, ps[i]) : i \in 1..Len(ps)}

\* C2: after any sequence of savePlace, updatePlace and deletePlace calls,
\* listPlaces holds exactly the net effect of the calls: every place saved and
\* not deleted is there exactly once with its latest fields, and nothing else.
C2_NetEffect ==
    /\ StoredSet(ListPlaces(places)) = net
    /\ Cardinality(PlaceIds(ListPlaces(places))) = Len(ListPlaces(places))

\* Two saves, an update and a delete have happened
C2_Witness ==
    /\ now = 3 /\ nextId = 3 /\ Len(places) = 1
    /\ places[1].updatedAt # places[1].createdAt

\* C4: at most 5 custom categories exist in every reachable state, and an
\* attempt to create a sixth leaves the stored categories unchanged.
C4_CustomTabLimit ==
    /\ [](Cardinality(CustomTabs(tabs)) <= MAX_CUSTOM_TABS)
    /\ [][(CreateTab /\ Cardinality(CustomTabs(tabs)) = MAX_CUSTOM_TABS)
            => tabs' = tabs]_vars

\* A sixth creation has been attempted and rejected
C4_Witness ==
    /\ Cardinality(CustomTabs(tabs)) = MAX_CUSTOM_TABS
    /\ toast = "tab_limit"

\* C6: submitting the form with a name that is empty after trimming aborts
\* with the inline name error before any write: no store call, places unchanged.
C6_BlankNameAborts ==
    [][(HandleSave /\ Trim(name) = <<>>)
        => /\ places' = places
           /\ lastWrite' = NoWrite
           /\ errorsName'
           /\ route' = "place"]_vars

\* The form was submitted with a blank name and shows the error
C6_Witness ==
    /\ route = "place" /\ errorsName
    /\ name # <<>> /\ Trim(name) = <<>>
    /\ places # <<>>

\* C7: an edit of a place whose id is no longer in the store, found missing
\* when the form loads or when it is saved, is surfaced as a not-found
\* notification with a redirect to the list, never as a successful update.
C7_VanishedEditSurfaced ==
    [][( \/ \E id \in 1..MaxClock :
               OpenEdit(id) /\ id \notin PlaceIds(places)
         \/ /\ HandleSave /\ Validate
            /\ ~isNew /\ editId \notin PlaceIds(places) )
        => (toast' = "not_found" /\ route' = "home")]_vars

----------------------------------------------------------------------------
(* Claims about the voice pipeline *)

\* C8: when the cleanup call fails (network error, non-OK response, no usable
\* text) or no cleanup key is configured, the raw transcript is what gets
\* appended to the note.
C8_RawOnCleanupFailure ==
    (lastAppend.done /\ ~Usable(lastAppend.resp))
        => /\ lastAppend.text = lastAppend.raw
           /\ Len(memo) >= Len(lastAppend.raw)
           /\ SubSeq(memo, Len(memo) - Len(lastAppend.raw) + 1, Len(memo))
                 = lastAppend.raw

\* A configured cleanup call failed and the raw transcript was appended
C8_Witness ==
    /\ hasGeminiKey
    /\ lastAppend.done /\ lastAppend.resp.kind \in {"throw", "not_ok"}
    /\ lastAppend.prev # <<>>

\* C9: a user-triggered stop while listening, with no transcript produced yet,
\* ends the capture session: a result of that session delivered afterwards
\* neither enters cleaning nor appends text to the note.
C9_StopEndsSession ==
    [][\A i \in 1..MaxSessions, seg \in Segments :
          (OnResult(i, seg) /\ sessions[i].stopped)
              => (cleanings' = cleanings /\ memo' = memo)]_vars

\* C10: when cleaning finishes the text is appended to the note as it stands at
\* that moment: note, newline, text if the note was non-empty, else the text.
C10_AppendKeepsNote ==
    lastAppend.done =>
        LET p == lastAppend.prev
            t == lastAppend.text
        IN  IF p = <<>> THEN memo = t
            ELSE /\ Len(memo) = Len(p) + 1 + Len(t)
                 /\ SubSeq(memo, 1, Len(p)) = p
                 /\ memo[Len(p) + 1] = "\n"
                 /\ SubSeq(memo, Len(p) + 2, Len(memo)) = t

\* The note was edited while cleaning was in flight, then the text was appended
C10_Witness ==
    /\ lastAppend.done
    /\ lastAppend.prev # <<>>
    /\ lastAppend.edited

----------------------------------------------------------------------------
(* Claims about the search page and the search history *)

\* C1: predictions returned for an input value are applied to the suggestion
\* list only if that value is still the current input when the response
\* arrives; a response for an earlier input never overwrites the suggestions.
C1_StaleDiscarded ==
    [][\A k \in 1..MaxInFlight, some \in BOOLEAN :
          (PredictionsResponse(k, some) /\ predInFlight[k] # query)
              => suggestions' = suggestions]_vars

HistoryEntries(h) == {h[i] : i \in 1..Len(h)}

\* C3: the search history never holds more than 20 entries, and an insertion
\* into a full history evicts exactly the oldest-inserted entry, so the 20 most
\* recent insertions remain.
C3_HistoryCap ==
    /\ [](Len(searchHistory) <= MAX_SEARCH_HISTORY)
    /\ [][searchHistory' # searchHistory =>
            LET old == HistoryEntries(searchHistory)
                new == HistoryEntries(searchHistory')
            IN  /\ Cardinality(new \ old) = 1
                /\ Cardinality(new) = Len(searchHistory')
                /\ Cardinality(old \ new) =
                      IF Len(searchHistory) = MAX_SEARCH_HISTORY THEN 1 ELSE 0
                /\ \A e \in old \ new, f \in new : e.timestamp < f.timestamp]_vars

\* Two selections were recorded into a history that was already full
C3_Witness ==
    /\ Len(searchHistory) = MAX_SEARCH_HISTORY
    /\ searchHistory[1].timestamp = 2
    /\ searchHistory[MAX_SEARCH_HISTORY].timestamp = 2 - MAX_SEARCH_HISTORY + 1

\* C5: every place written to the store, through any save path, has a name
\* that is non-empty after trimming whitespace.
C5_StoredNamesNonBlank ==
    \A i \in 1..Len(places) : Trim(places[i].name) # <<>>

----------------------------------------------------------------------------
(* Claims about the location and geocoding adapters *)

\* C11: reverseGeocode never propagates an error: on a network failure or a
\* zero-result / non-OK response it resolves with the "{lat}, {lng}" string as
\* the address, so the current-location flow still fills the address field.
C11_GeocodeFailOpen ==
    (loadStep = "done" /\ geoResult # NoResult)
        => /\ geoResult.kind = "resolved"
           /\ address # <<>>

-----------------------------------------------------------------------------
(* Claims about the maps adapters *)

SpentTokens == {tokenLog.spent[i] : i \in 1..Len(tokenLog.spent)}

\* C12: the autocomplete session token is replaced by a new one in the step in
\* which a place-details fetch succeeds and in no other step of a mounted
\* page, a failed details fetch leaves it unchanged, and every autocomplete
\* request is issued with the current token, never with a token that a
\* successful details fetch has already carried.
C12_TokenLifecycle ==
    [][ /\ (sessionToken # 0 /\ sessionToken' # 0 /\ sessionToken' # sessionToken)
            => Len(tokenLog'.spent) = Len(tokenLog.spent) + 1
        /\ (Len(tokenLog'.spent) > Len(tokenLog.spent) /\ route = "search")
            => /\ sessionToken' # sessionToken
               /\ sessionToken' \notin SpentTokens'
        /\ (Len(detailsInFlight') < Len(detailsInFlight)
                /\ tokenLog'.spent = tokenLog.spent)
            => sessionToken' = sessionToken
        /\ Len(predInFlight') > Len(predInFlight)
            => /\ tokenLog'.request = sessionToken'
               /\ tokenLog'.request \notin SpentTokens'
      ]_vars

\* C13: a prediction request with an empty or whitespace-only input, or made
\* while the adapter is not ready, resolves with the empty sequence and never
\* rejects.
C13_PredictionsFailSoft ==
    (/\ adapterCall.fn \in {"getPlacePredictions", "getAutocomplete"}
     /\ (~adapterCall.ready \/ Trim(adapterCall.input) = <<>>))
        => adapterCall.out = Resolved(<<>>)

\* The failure kinds of getCurrentLocation that come from a platform error code
CodeFailures == {"permission_denied", "position_unavailable", "timeout", "failed"}

\* C14 as stated: a call of getCurrentLocation ends with a position or with a
\* failure of one of exactly four kinds (permission denied, position
\* unavailable, timeout, unknown).
C14_FourFailureKinds ==
    adapterCall.fn = "getCurrentLocation"
        => \/ adapterCall.out.kind = "resolved"
           \/ /\ adapterCall.out.kind = "rejected"
              /\ adapterCall.out.message \in CodeFailures

\* C14, amended: a call of getCurrentLocation settles, with the platform's
\* position or with a failure; the failure is "unsupported" exactly when the
\* platform has no location API, and otherwise one of the four kinds, decided
\* by the platform error code: 1, 2 and 3 give permission denied, position
\* unavailable and timeout, every other code gives unknown.
C14_LocationOutcomes ==
    adapterCall.fn = "getCurrentLocation"
        => LET o == adapterCall.platform
               r == adapterCall.out
           IN  /\ r.kind \in {"resolved", "rejected"}
               /\ r.kind = "resolved" <=> o.kind = "position"
               /\ r.kind = "resolved" => r.lat = o.lat /\ r.lng = o.lng
               /\ r.kind = "rejected"
                    => /\ r.message \in CodeFailures \cup {"unsupported"}
                       /\ r.message = "unsupported" <=> o.kind = "unsupported"
                       /\ r.message = "permission_denied" <=> (o.kind = "error" /\ o.code = 1)
                       /\ r.message = "position_unavailable" <=> (o.kind = "error" /\ o.code = 2)
                       /\ r.message = "timeout" <=> (o.kind = "error" /\ o.code = 3)

C14_Witness ==
    /\ adapterCall.fn = "getCurrentLocation"
    /\ adapterCall.platform.kind = "error" /\ adapterCall.platform.code = 4
    /\ adapterCall.out = [kind |-> "rejected", message |-> "failed"]

\* The destination parameter of a link, parsed back into two numbers
ParseDestination(url) ==
    LET from  == IndexOf(url, "destination=")
        rest  == SubSeq(url, from + 1, Len(url))
        value == SubSeq(rest, 1, IndexOf(rest, "&") - 1)
        comma == IndexOf(value, ",")
    IN  [lat |-> ParseFloat(SubSeq(value, 1, comma - 1)),
         lng |-> ParseFloat(SubSeq(value, comma + 1, Len(value)))]

\* C15: the link openNavigation builds names exactly one travel mode, the one
\* asked for (driving when none is given), and its destination parameter,
\* parsed back, gives the latitude and the longitude it was built from.
C15_NavigationLink ==
    adapterCall.fn = "openNavigation"
        => LET url == adapterCall.out
               modes == {i \in 1..Len(url) : url[i] \in TravelModes}
           IN  /\ Cardinality(modes) = 1
               /\ \A i \in modes :
                     /\ url[i - 1] = "travelmode="
                     /\ adapterCall.mode \in TravelModes => url[i] = adapterCall.mode
               /\ ParseDestination(url) =
                     [lat |-> adapterCall.lat, lng |-> adapterCall.lng]

C15_Witness ==
    /\ adapterCall.fn = "openNavigation"
    /\ adapterCall.lat = 356812345 /\ adapterCall.lng = 0 - 5
    /\ adapterCall.mode = "transit"
    /\ adapterCall.out =
          <<"https://www.google.com/maps/dir/", "?", "api=1", "&", "destination=",
            "3", "5", ".", "6", "8", "1", "2", "3", "4", "5", ",",
            "-", "5", "e", "-", "7", "&", "travelmode=", "transit">>

-----------------------------------------------------------------------------
(* Claims about categories *)

TabIds == {tabs[i].id : i \in 1..Len(tabs)}

AllNeverAssigned ==
    /\ "all" \notin OfferedTabs
    /\ tabId # "all"
    /\ \A i \in 1..Len(places) : places[i].tabId # "all"

\* C19 as stated: no category record has the id "all", the place form never
\* offers it, and no stored place has it as its category.
C19_AllNeverStored ==
    /\ "all" \notin TabIds
    /\ AllNeverAssigned

\* C19, amended: "all" is one of the built-in category records the store
\* returns, but the place form does not offer it, the form's category is
\* never "all", and no stored place has "all" as its category.
C19_AllNeverAssigned ==
    /\ "all" \in TabIds
    /\ AllNeverAssigned

C19_Witness ==
    /\ "all" \in TabIds
    /\ route = "place"
    /\ Len(places) = 2
    /\ places[1].tabId = "planned" /\ places[2].tabId = "frequent"
    /\ tabId = "planned"

\* C20: a place shown on the home page resolves to an existing category: the
\* card of a place whose category record does not exist shows the "other"
\* category, and the card of any other place shows the place's category.
C20_DanglingCategoryIsOther ==
    ~home.isLoading
        => \A i \in 1..Len(home.cards) :
              home.cards[i].category =
                  IF home.cards[i].tabId \in TabIds THEN home.cards[i].tabId
                  ELSE "other"

-----------------------------------------------------------------------------
(* Claims about the home page's list *)

\* C16: sorting is idempotent under every sort option: the list shown, sorted
\* once more under the same option, is the same sequence, also when names or
\* creation times repeat.
C16_SortIdempotent ==
    ~home.isLoading => home.resorted = home.filteredPlaces

C16_Witness ==
    /\ ~home.isLoading /\ home.sortOption = "name-asc"
    /\ Len(home.filteredPlaces) = 3
    /\ home.filteredPlaces # home.places
    /\ home.filteredPlaces[1].name = home.filteredPlaces[2].name
    /\ home.resorted = home.filteredPlaces

Reverse(s) == [i \in 1..Len(s) |-> s[Len(s) + 1 - i]]

DistinctTimes(s) ==
    \A i, j \in 1..Len(s) : i # j => s[i].createdAt # s[j].createdAt

\* C17: when no two places of the list have the same creation time, switching
\* between the two creation-time orders shows the same places in exactly the
\* reverse order.
C17_AscendingReversesDescending ==
    (/\ ~home.isLoading
     /\ {home.sortOption, home.prev.sortOption} = {"created-asc", "created-desc"}
     /\ home.prev.activeTabId = home.activeTabId
     /\ DistinctTimes(home.filteredPlaces))
        => home.filteredPlaces = Reverse(home.prev.filteredPlaces)

C17_Witness ==
    /\ ~home.isLoading
    /\ home.sortOption = "created-asc" /\ home.prev.sortOption = "created-desc"
    /\ home.prev.activeTabId = home.activeTabId
    /\ Len(home.filteredPlaces) = 3 /\ DistinctTimes(home.filteredPlaces)
    /\ home.places[1].createdAt = 2 /\ home.places[2].createdAt = 3
    /\ home.filteredPlaces[1].createdAt = 1
    /\ home.prev.filteredPlaces[1].createdAt = 3

\* The position of the record with the given id in a list
PositionOf(ps, id) == CHOOSE i \in 1..Len(ps) : ps[i].id = id

SameKey(a, b, sortOption) ==
    IF sortOption = "name-asc" THEN a.name = b.name
    ELSE a.createdAt = b.createdAt

\* C18: under every sort option, places with equal sort keys are shown in the
\* order in which the store returned them, and the loaded list is still the
\* list the store returned after the list shown has been computed.
C18_StableSortOnCopy ==
    ~home.isLoading
        => /\ home.places = ListPlaces(places)
           /\ \A i, j \in 1..Len(home.filteredPlaces) :
                (i < j /\ SameKey(home.filteredPlaces[i], home.filteredPlaces[j],
                                  home.sortOption))
                    => PositionOf(places, home.filteredPlaces[i].id)
                         < PositionOf(places, home.filteredPlaces[j].id)

C18_Witness ==
    /\ ~home.isLoading /\ home.activeTabId = "all"
    /\ home.sortOption = "created-desc"
    /\ Len(home.filteredPlaces) = 3
    /\ home.filteredPlaces # home.places
    /\ home.places = ListPlaces(places)
    /\ home.filteredPlaces[2].createdAt = home.filteredPlaces[3].createdAt
    /\ home.filteredPlaces[2].id < home.filteredPlaces[3].id


(***************************************************************************)
(* Coordinates of the places the form writes                               *)
(***************************************************************************)

MaxCoordSaves == 2

\* What the platform does with the form's getCurrentPosition call
CoordOutcomes ==
    { [kind |-> "unsupported"], [kind |-> "error", code |-> 1],
      [kind |-> "position", lat |-> 356812345, lng |-> 1397671250] }

\* What the network does with the form's reverseGeocode call
CoordGeocodeOutcomes ==
    { [kind |-> "fetch_rejects"],
      [kind |-> "json", status |-> "ZERO_RESULTS", results |-> <<>>] }

\* The three ways the form gets its coordinates (current location, URL
\* parameters, the place being edited), the name field, save and back.
NextCoords ==
    \/ OpenNewCurrentLocation
    \/ \E o \in CoordOutcomes : LocationSettles(o)
    \/ \E o \in CoordGeocodeOutcomes : GeocodeSettles(o)
    \/ \E p \in UrlCoordinates : OpenNewPrefill(<<"a">>, p.lat, p.lng)
    \/ \E id \in 1..MaxClock : OpenEdit(id)
    \/ \E v \in {<<>>, <<"b">>} : SetName(v)
    \/ (now < MaxCoordSaves /\ HandleSave)
    \/ LeaveForm

SpecCoords == InitLocatePage /\ [][NextCoords]_vars

LatitudeInRange(x) == 0 - 900000000 <= x /\ x <= 900000000
LongitudeInRange(x) == 0 - 1800000000 <= x /\ x <= 1800000000

\* C21: every place in the store has a latitude within [-90, 90] and a
\* longitude within [-180, 180] degrees, whether its coordinates came from the
\* current location, from the URL parameters or from the place edited.
C21_StoredCoordinatesInRange ==
    \A i \in 1..Len(places) :
        LatitudeInRange(places[i].latitude) /\ LongitudeInRange(places[i].longitude)


\* C27: a place saved from a form opened for the current location carries the
\* coordinates the platform location API returned; after a failed acquisition
\* no place is saved from that form.
C27_CurrentLocationSaveHasPosition ==
    [][(loadStep = "done" /\ Len(places') > Len(places))
          => /\ locResult.kind = "resolved"
             /\ places'[Len(places')].latitude = locResult.lat
             /\ places'[Len(places')].longitude = locResult.lng]_vars


(***************************************************************************)
(* Voice input: several recognition objects, several result events         *)
(***************************************************************************)

MaxCaptures == 2
MaxResults == 2

NextCapture ==
    \/ StartVoiceInputWithin(MaxCaptures)
    \/ StopVoiceInput
    \/ \E i \in 1..MaxCaptures : OnStart(i)
    \/ \E i \in 1..MaxCaptures, seg \in Segments : OnResultWithin(i, seg, MaxResults)
    \/ \E k \in 1..(MaxCaptures * MaxResults) :
          CleaningDone(k, [kind |-> "ok", text |-> <<"c", " ">>])
    \/ \E i \in 1..MaxCaptures : OnError(i, "no-speech")
    \/ \E i \in 1..MaxCaptures : OnEnd(i)

SpecCapture == InitVoicePage /\ [][NextCapture]_vars

\* Recognition objects that were started and have not ended
LiveSessions == {i \in 1..Len(sessions) : Live(i)}

\* C22: at most one speech-capture session is live at any time: no recognition
\* object is started while an earlier one has been started and has not ended.
C22_OneLiveSession == Cardinality(LiveSessions) <= 1

\* The transcript of these results goes to the note (fullTranscript.trim())
Dispatched(results) == Truthy(Trim(Concat(results)))

\* C23: within one session a recognised segment goes to the note at most once:
\* a result event that sends its transcript to the note does not carry
\* segments an earlier result event of the session has already sent.
C23_SegmentAppendedOnce ==
    [][\A i \in 1..Len(sessions) :
          (/\ sessions'[i].results # sessions[i].results
           /\ Dispatched(sessions'[i].results))
             => ~Dispatched(sessions[i].results)]_vars


(***************************************************************************)
(* SearchPage (rev 2): the searching indicator and the suggestion list     *)
(***************************************************************************)

\* A suggestion request for the input on screen is pending: its debounce timer
\* is armed, or its prediction call has not answered yet
RequestPending ==
    \/ debounce.armed /\ debounce.value = query
    \/ \E k \in 1..Len(predInFlight) : predInFlight[k] = query

\* C24: the searching indicator is on whenever a suggestion request for the
\* current input is pending (timer armed or prediction call in flight); the
\* completion or discarding of an older request does not turn it off.
C24_SearchingWhilePending == (rev = 2 /\ RequestPending) => isSearching

\* C25: once a suggestion is selected the list stays empty until the input
\* next changes; no pending timer or prediction response repopulates it.
C25_ListEmptyAfterSelection ==
    (rev = 2 /\ route = "search" /\ selectedSinceInput) => suggestions = <<>>


\* The rev 2 page under the scheduling the platform gives it: an armed timer
\* fires, the Places services finish initialising, a prediction call answers.
InitSearchLive == InitSearch /\ rev = 2

SpecSearchLive ==
    /\ InitSearchLive
    /\ [][NextSearch]_vars
    /\ WF_vars(TimerFire)
    /\ WF_vars(BecomeReady)
    /\ WF_vars(\E k \in 1..MaxInFlight, some \in BOOLEAN : PredictionsResponse(k, some))

\* A prediction request for q has been issued and has not answered yet
Requested(q) == \E k \in 1..Len(predInFlight) : predInFlight[k] = q

\* C28: a non-empty input whose debounce timer is armed eventually has a
\* prediction request issued for it, unless the input changes or the page is
\* left first; this includes an input typed before the adapter was ready.
C28_CurrentInputSearched ==
    \A q \in Queries :
        (route = "search" /\ debounce.armed /\ debounce.value = q)
            ~> (Requested(q) \/ query # q \/ route # "search")


(***************************************************************************)
(* InteractiveMap: moving the pin on the search page (rev 2)               *)
(***************************************************************************)

MaxMoves == 2

\* What the network does with the reverseGeocode call of a pin move
PinGeocodeOutcomes ==
    CoordGeocodeOutcomes
       \cup {[kind |-> "json", status |-> "OK",
              results |-> << [formatted_address |-> <<"P", "v">>,
                              types |-> {"point_of_interest", "establishment"},
                              name |-> <<"n">>] >>]}

\* dragend / handleLongPressAt up to the await: the pin is at p and
\* reverseGeocode(p.lat, p.lng) is called
MovePin(p) ==
    /\ route = "search" /\ rev = 2
    /\ pinMoves < MaxMoves
    /\ pinMoves' = pinMoves + 1
    /\ pinInFlight' = Append(pinInFlight,
          [move |-> pinMoves + 1, lat |-> p.lat, lng |-> p.lng])
    /\ UNCHANGED <<pinApplied, loaderVars>>
    /\ UNCHANGED <<storeVars, navVars, formVars, voiceVars, searchVars, net>>
    /\ Quiet
    /\ UNCHANGED <<locateVars, tokenVars, callVars>>

\* dragend / handleLongPressAt after the await: onLocationChange gets the
\* position of that move with the address found, or with the coordinate string
\* when reverseGeocode rejected
PinGeocodeSettles(k, o) ==
    /\ route = "search" /\ rev = 2
    /\ k \in 1..Len(pinInFlight)
    /\ LET p == pinInFlight[k]
           res == ReverseGeocode(p.lat, p.lng, o)
       IN  /\ selectedPlace' =
                 IF res.kind = "resolved"
                 THEN LocationChange(p.lat, p.lng, res.address, res.placeName)
                 ELSE LocationChange(p.lat, p.lng, CoordString(p.lat, p.lng), <<>>)
           /\ pinApplied' = IF selectedPlace # NoSelection THEN p.move ELSE pinApplied
    /\ pinInFlight' = RemoveAt(pinInFlight, k)
    /\ UNCHANGED <<pinMoves, loaderVars>>
    /\ UNCHANGED <<rev, query, isSearching, suggestions, debounce, predInFlight,
                   detailsInFlight, isReady, selectedSinceInput>>
    /\ UNCHANGED <<storeVars, navVars, formVars, voiceVars, net>>
    /\ Quiet
    /\ UNCHANGED <<locateVars, tokenVars, callVars>>

NextPin ==
    \/ HandleInputChange(<<"a">>)
    \/ TimerFire
    \/ BecomeReady
    \/ \E k \in 1..MaxInFlight : PredictionsResponse(k, TRUE)
    \/ HandleSelectSuggestion(Suggest(<<"a">>)[1])
    \/ \E k \in 1..MaxInFlight, d \in PlaceDetails : DetailsResponse(k, d)
    \/ \E p \in PinPositions : MovePin(p)
    \/ \E k \in 1..MaxMoves, o \in PinGeocodeOutcomes : PinGeocodeSettles(k, o)

SpecPin == InitSearchLive /\ [][NextPin]_vars

\* C26: when the pin is moved several times, the answer of an earlier move is
\* not applied after the answer of a later move: it leaves the coordinates
\* and the address of the selected place as the later move set them.
C26_LastMoveWins ==
    [][pinApplied' < pinApplied =>
          /\ selectedPlace'.latitude = selectedPlace.latitude
          /\ selectedPlace'.longitude = selectedPlace.longitude
          /\ selectedPlace'.address = selectedPlace.address]_vars


(***************************************************************************)
(* useGoogleMaps: loading the Maps SDK script                              *)
(* Two revisions of the hook are in the sources.  Rev 1 listens to         *)
(* script.onload and lists the libraries array among the effect's          *)
(* dependencies (a new array on every render, so the effect runs again on  *)
(* every render); rev 2 passes a callback parameter, also looks at         *)
(* window.google.maps, and depends on the key alone.  hooks[i].via records *)
(* which call set isLoaded (observer).                                     *)
(***************************************************************************)

MaxCallbacks == 2

\* if (isScriptLoading): another instance's load is in flight
AnotherLoadInFlightIgnored == FALSE
AnotherLoadInFlight == isScriptLoading

\* if (isScriptLoaded), in rev 2 if (isScriptLoaded || window.google?.maps)
AlreadyLoaded == isScriptLoaded \/ (loaderRev = 2 /\ googleMaps)

\* setIsLoaded(true) of instance i, called from "how"; the setter of an
\* instance that is not rendered does nothing
SetIsLoaded(hs, i, how) ==
    IF i \in Hooks /\ hs[i].phase # "unmounted" /\ ~hs[i].isLoaded
    THEN [hs EXCEPT ![i].isLoaded = TRUE, ![i].via = how]
    ELSE hs

SetLoadError(hs, i) ==
    IF i \in Hooks /\ hs[i].phase # "unmounted"
    THEN [hs EXCEPT ![i].loadError = TRUE]
    ELSE hs

RECURSIVE RunCallbacks(_, _)
\* loadCallbacks.forEach((cb) => cb())
RunCallbacks(hs, cbs) ==
    IF cbs = <<>> THEN hs
    ELSE RunCallbacks(SetIsLoaded(hs, Head(cbs), "callback"), Tail(cbs))

\* A component using the hook renders for the first time:
\* useState(isScriptLoaded), useState(null)
RenderHook(i) ==
    /\ hooks[i].phase = "unmounted"
    /\ hooks' = [hooks EXCEPT ![i] =
          [phase |-> "rendered", isLoaded |-> isScriptLoaded, loadError |-> FALSE,
           via |-> IF isScriptLoaded THEN "render" ELSE "none"]]
    /\ UNCHANGED <<loaderRev, isScriptLoading, isScriptLoaded, loadCallbacks,
                   scripts, googleMaps>>
    /\ UNCHANGED <<storeVars, navVars, formVars, voiceVars, searchVars, net>>
    /\ Quiet
    /\ UNCHANGED <<locateVars, pinVars, tokenVars, callVars>>

\* The load effect of instance i runs: after its first render, and in rev 1
\* after any later render
RunEffect(i) ==
    /\ \/ hooks[i].phase = "rendered"
       \/ hooks[i].phase = "mounted" /\ loaderRev = 1
    /\ LET hs == [hooks EXCEPT ![i].phase = "mounted"] IN
       IF ~hasMapsKey
       THEN /\ hooks' = hs
            /\ UNCHANGED <<isScriptLoading, isScriptLoaded, loadCallbacks, scripts>>
       ELSE IF AlreadyLoaded
       THEN /\ isScriptLoaded' = TRUE
            /\ hooks' = SetIsLoaded(hs, i, "effect")
            /\ UNCHANGED <<isScriptLoading, loadCallbacks, scripts>>
       ELSE IF AnotherLoadInFlight
       THEN /\ Len(loadCallbacks) < MaxCallbacks
            /\ loadCallbacks' = Append(loadCallbacks, i)
            /\ hooks' = hs
            /\ UNCHANGED <<isScriptLoading, isScriptLoaded, scripts>>
       ELSE /\ Len(scripts) < MaxCallbacks
            /\ isScriptLoading' = TRUE
            /\ scripts' = Append(scripts, i)
            /\ hooks' = hs
            /\ UNCHANGED <<isScriptLoaded, loadCallbacks>>
    /\ UNCHANGED <<loaderRev, googleMaps>>
    /\ UNCHANGED <<storeVars, navVars, formVars, voiceVars, searchVars, net>>
    /\ Quiet
    /\ UNCHANGED <<locateVars, pinVars, tokenVars, callVars>>

\* The script has run: script.onload (rev 1) / __googleMapsCallback (rev 2)
ScriptLoads(k) ==
    /\ k \in 1..Len(scripts)
    /\ googleMaps' = TRUE
    /\ isScriptLoaded' = TRUE /\ isScriptLoading' = FALSE
    /\ hooks' = RunCallbacks(SetIsLoaded(hooks, scripts[k], "owner"), loadCallbacks)
    /\ loadCallbacks' = <<>>
    /\ scripts' = RemoveAt(scripts, k)
    /\ UNCHANGED loaderRev
    /\ UNCHANGED <<storeVars, navVars, formVars, voiceVars, searchVars, net>>
    /\ Quiet
    /\ UNCHANGED <<locateVars, pinVars, tokenVars, callVars>>

\* script.onerror
ScriptFails(k) ==
    /\ k \in 1..Len(scripts)
    /\ isScriptLoading' = FALSE
    /\ hooks' = SetLoadError(hooks, scripts[k])
    /\ scripts' = RemoveAt(scripts, k)
    /\ UNCHANGED <<loaderRev, isScriptLoaded, loadCallbacks, googleMaps>>
    /\ UNCHANGED <<storeVars, navVars, formVars, voiceVars, searchVars, net>>
    /\ Quiet
    /\ UNCHANGED <<locateVars, pinVars, tokenVars, callVars>>

\* The component of instance i unmounts.  Its queued callback and its script
\* handlers stay where they are; their setters do nothing from now on, which
\* is kept here by taking the instance out of both lists' owners.
UnmountHook(i) ==
    /\ hooks[i].phase = "mounted"
    /\ hooks' = [hooks EXCEPT ![i] = NoHook]
    /\ loadCallbacks' = [k \in 1..Len(loadCallbacks) |->
                            IF loadCallbacks[k] = i THEN 0 ELSE loadCallbacks[k]]
    /\ scripts' = [k \in 1..Len(scripts) |-> IF scripts[k] = i THEN 0 ELSE scripts[k]]
    /\ UNCHANGED <<loaderRev, isScriptLoading, isScriptLoaded, googleMaps>>
    /\ UNCHANGED <<storeVars, navVars, formVars, voiceVars, searchVars, net>>
    /\ Quiet
    /\ UNCHANGED <<locateVars, pinVars, tokenVars, callVars>>

InitLoaderPage ==
    /\ InitStore /\ InitForm /\ InitVoice /\ InitSearchPage /\ InitObs
    /\ InitLocate /\ InitPin /\ hasMapsKey \in BOOLEAN
    /\ loaderRev \in {1, 2} /\ InitLoaderState
    /\ sessionToken = 0 /\ tokenLog = NoTokenLog
    /\ adapterCall = NoCall /\ home = NoHome
    /\ hasGeminiKey = FALSE /\ rev = 2
    /\ route = "search" /\ toast = "none"

NextLoader ==
    \/ \E i \in Hooks : RenderHook(i)
    \/ \E i \in Hooks : RunEffect(i)
    \/ \E k \in 1..MaxCallbacks : ScriptLoads(k)
    \/ \E k \in 1..MaxCallbacks : ScriptFails(k)
    \/ \E i \in Hooks : UnmountHook(i)

SpecLoader == InitLoaderPage /\ [][NextLoader]_vars

\* A script that is loading answers: it runs, or its load fails
SpecLoaderLive ==
    /\ InitLoaderPage
    /\ [][NextLoader]_vars
    /\ WF_vars(\E k \in 1..MaxCallbacks : ScriptLoads(k) \/ ScriptFails(k))

\* Instance i waits for the load in flight: it injected the script, or it
\* queued its callback
WaitsForLoad(i) ==
    /\ hooks[i].phase = "mounted"
    /\ \/ \E k \in 1..Len(scripts) : scripts[k] = i
       \/ \E k \in 1..Len(loadCallbacks) : loadCallbacks[k] = i

\* C29: a script element is injected only while no other load is in flight and
\* no load has succeeded, and when a load succeeds every instance that waited
\* for it has isLoaded = true.
C29_SingleLoadAllNotified ==
    [][/\ Len(scripts') > Len(scripts) => (scripts = <<>> /\ ~googleMaps)
       /\ (googleMaps' /\ ~googleMaps) =>
             \A i \in Hooks : WaitsForLoad(i) => hooks'[i].isLoaded]_vars

\* A load succeeded, and an instance that waited for it was told by its
\* queued callback while the instance that injected the script was told too
C29_Witness ==
    /\ googleMaps
    /\ \E i, j \in Hooks : hooks[i].via = "callback" /\ hooks[j].via = "owner"

\* Instance i queued its callback and the load it waited for has failed
WaitsAfterFailure(i) ==
    /\ hooks[i].phase = "mounted"
    /\ \E k \in 1..Len(loadCallbacks) : loadCallbacks[k] = i
    /\ ~isScriptLoading /\ scripts = <<>> /\ ~isScriptLoaded

\* C30: an instance that waited for a load that failed eventually has the load
\* error (or is loaded, or is unmounted); none stays with isLoaded = false and
\* loadError = null for ever.
C30_WaitersSeeLoadError ==
    \A i \in Hooks :
        WaitsAfterFailure(i)
            ~> (hooks[i].loadError \/ hooks[i].isLoaded \/ hooks[i].phase # "mounted")

====
